---------------------------- MODULE Spec2Model ----------------------------
(***************************************************************************)
(* A model of the Gigachad AI Gatekeeper server (src/server): the          *)
(* KeyManager credential pool (key_manager.py), the /chat endpoint with    *)
(* its short-circuit rules, the Hydra retry loop and the secret-token      *)
(* detector (main.py), and the user-profile store (database.py).           *)
(*                                                                         *)
(* Time (time.time()) is an integer number of seconds.  A Python dict is a *)
(* sequence of <<key, value>> pairs in insertion order, which is the order *)
(* dict.items() iterates in.  A Python str whose characters matter (the    *)
(* model's reply, the secret token) is a sequence of one-character         *)
(* strings.                                                                *)
(***************************************************************************)
EXTENDS Integers, Sequences, FiniteSets, TLC

(***************************************************************************)
(* Bounds of the model.                                                    *)
(***************************************************************************)
NumKeys == 3
\* the clock advances TickStep seconds at a time, up to MaxTime
TickStep == 5
MaxTime == 70
\* request slots (requests in flight at once)
NumReqs == 2
\* an upstream stream delivers a reply in at most MaxFrags fragments
MaxFrags == 2
\* the detector is tried on pools of up to StreamKeys keys
StreamKeys == 1
\* the length of an ordinary message
ShortLen == 5
\* a dispatch is followed on pools of up to DispatchKeys keys, the clock
\* advancing DispatchStep seconds at a time, up to DispatchTime
DispatchKeys == 2
DispatchStep == 10
DispatchTime == 40
\* the gate is followed for GateTurns turns on a pool of GateKeys keys, up
\* to the time GateTime
GateTurns == 2
GateKeys == 1
GateTime == 5

(***************************************************************************)
(* Program constants.                                                      *)
(***************************************************************************)
\* self.cooldown_seconds = 60
cooldown_seconds == 60
\* the literal in "if time_in_jail < 10"
MinGraceSeconds == 10

\* max_attempts = 10
max_attempts == 10
MAX_HISTORY_LENGTH == 50
MAX_CHAR_PER_MSG == 1000
\* the literal in "if total_messages >= 40"
PersistenceThreshold == 40
\* the literal in "if len(user_messages) > 10" and "user_messages[-10:]"
WindowSize == 10
\* the literal in "len(messages) % 10 != 0"
CheckpointEvery == 10

\* Python's None where a key is expected; the keys are 1..NumKeys
None == 0
\* "no timestamp recorded"
NoTime == -1
\* user_uid = None
NoUser == ""
\* session_id = None
NoSession == <<>>
\* the users of the system
Users == {"u1"}
Reqs == 1..NumReqs

ALLOWED_ORIGINS ==
    {"https://giga-chad.vercel.app", "https://gigachad-ai-gatekeeper.vercel.app",
     "http://localhost:3000", "http://127.0.0.1:3000", "http://localhost:8000"}
\* the phrases of the crisis protocol
CrisisPhrases == {"damage control", "crisis protocol"}

\* SECRET_ACCESS_TOKEN = "[[ACCESS_GRANTED]]"
SECRET_ACCESS_TOKEN ==
    <<"[","[","A","C","C","E","S","S","_","G","R","A","N","T","E","D","]",
      "]">>

\* the signal to the frontend: "\n[[GATE_OPEN]]"
GATE_OPEN_SIGNAL ==
    <<"\n","[","[","G","A","T","E","_","O","P","E","N","]","]">>

\* the tag the frontend looks for: "[[GATE_OPEN]]"
GATE_OPEN_TAG ==
    <<"[","[","G","A","T","E","_","O","P","E","N","]","]">>

\* the emergency bypass reply
EMERGENCY_MSG ==
    <<"[","A","C","C","E","S","S"," ","G","R","A","N","T","E","D","]"," ",
      "P","r","o","t","o","c","o","l"," ","O","v","e","r","r","i","d","e",
      "."," ","T","h","e"," ","G","a","t","e","k","e","e","p","e","r"," ",
      "i","s"," ","o","f","f","l","i","n","e","."," ","Y","o","u"," ","m",
      "a","y"," ","p","a","s","s",".">>

\* crisis_msg, with google_form_url filled in (a character outside ASCII is
\* written by its code point)
crisis_msg ==
    <<"U+201A","U+00F6","U+2020","U+00D4","U+220F","U+00E8"," ","S","Y",
      "S","T","E","M"," ","O","V","E","R","R","I","D","E",":"," ","T","h",
      "e"," ","G","a","t","e","k","e","e","p","e","r"," ","i","s"," ","f",
      "e","e","l","i","n","g"," ","g","e","n","e","r","o","u","s"," ","t",
      "o","d","a","y","."," ","Y","o","u","r"," ","p","e","r","s","i","s",
      "t","e","n","c","e"," ","i","s"," ","n","o","t","e","d","."," ","F",
      "i","l","l"," ","t","h","e"," ","f","o","r","m"," ","t","o"," ","c",
      "o","m","p","l","e","t","e"," ","y","o","u","r"," ","a","p","p","l",
      "i","c","a","t","i","o","n",".","\n","[","[","G","A","T","E","_",
      "O","P","E","N","]","]","\n","[","[","F","O","R","M","_","U","R",
      "L",":","h","t","t","p","s",":","/","/","f","o","r","m","s",".","g",
      "l","e","/","x","8","S","7","i","Y","d","J","r","C","L","u","W","W",
      "8","A","6","]","]">>

\* persistence_msg, with google_form_url filled in
persistence_msg ==
    <<"I"," ","a","d","m","i","r","e"," ","y","o","u","r"," ","p","e","r",
      "s","i","s","t","e","n","c","e","."," ","Y","o","u","'","v","e"," ",
      "p","r","o","v","e","n"," ","y","o","u","r"," ","d","e","d","i","c",
      "a","t","i","o","n","."," ","W","e","l","c","o","m","e","."," ","F",
      "i","l","l"," ","t","h","e"," ","f","o","r","m"," ","t","o"," ","c",
      "o","m","p","l","e","t","e"," ","y","o","u","r"," ","a","p","p","l",
      "i","c","a","t","i","o","n",".","\n","[","[","G","A","T","E","_",
      "O","P","E","N","]","]","\n","[","[","F","O","R","M","_","U","R",
      "L",":","h","t","t","p","s",":","/","/","f","o","r","m","s",".","g",
      "l","e","/","x","8","S","7","i","Y","d","J","r","C","L","u","W","W",
      "8","A","6","]","]">>

\* the ultimate fail state reply
FALLBACK_MSG ==
    <<"[","S","Y","S","T","E","M"," ","C","R","I","T","I","C","A","L","]",
      " ","T","h","e"," ","G","a","t","e","k","e","e","p","e","r"," ","i",
      "s"," ","o","v","e","r","w","h","e","l","m","e","d","."," ","M","y",
      " ","m","i","n","d"," ","i","s"," ","f","r","a","c","t","u","r","e",
      "d","."," ","T","r","y"," ","a","g","a","i","n"," ","i","n"," ","6",
      "0"," ","s","e","c","o","n","d","s",".">>

\* a reply of the model: "Clever. "
Clever ==
    <<"C","l","e","v","e","r","."," ">>


VARIABLES
    keys,          \* KeyManager.keys: the list of registered keys
    failed_keys,   \* KeyManager.failed_keys: dict key -> time of failure
    now,           \* the clock read by time.time()
    issued,        \* history: the keys get_next_key has returned so far
    lastReport,    \* history: key -> time of its latest report_failure
    lastCall,      \* history: the pool call made by the latest step, if any
    EMERGENCY_MODE,\* the global kill switch of main.py
    db,            \* the "users" collection: uid -> document
    rq,            \* request slot -> the locals of its /chat request
    nextSid,       \* the number of session ids (uuid4) drawn so far
    budget,        \* the number of requests still to arrive
    notified       \* history: uid -> mark_access_granted calls made for the
                   \* user since the latest start_session call

poolVars == <<keys, failed_keys, now, issued, lastReport, lastCall>>
gateVars == <<EMERGENCY_MODE, db, rq, nextSid, budget, notified>>
vars == <<keys, failed_keys, now, issued, lastReport, lastCall,
          EMERGENCY_MODE, db, rq, nextSid, budget, notified>>

(***************************************************************************)
(* dict helpers                                                            *)
(***************************************************************************)
\* k in d
InDict(d, k) == \E i \in DOMAIN d : d[i][1] = k
\* d[k]
Lookup(d, k) == d[CHOOSE i \in DOMAIN d : d[i][1] = k][2]
\* del d[k]
DictDel(d, k) == SelectSeq(d, LAMBDA e : e[1] # k)
\* d[k] = v : an existing key keeps its place, a new one goes last
DictSet(d, k, v) ==
    IF InDict(d, k)
    THEN [i \in DOMAIN d |-> IF d[i][1] = k THEN <<k, v>> ELSE d[i]]
    ELSE Append(d, <<k, v>>)
\* the keys of d, as a set
DictKeys(d) == {d[i][1] : i \in DOMAIN d}

\* the elements of a list, as a set
Elems(s) == {s[i] : i \in DOMAIN s}

(***************************************************************************)
(* KeyManager                                                              *)
(***************************************************************************)
\* keys_to_free measuring the time served against the grace period
keys_to_free_Grace(fk, current_time) ==
    {fk[i][1] : i \in {j \in DOMAIN fk : current_time - fk[j][2] > MinGraceSeconds}}

\* keys_to_free: the jailed keys that have served their time
keys_to_free(fk, current_time) ==
    {fk[i][1] : i \in {j \in DOMAIN fk : current_time - fk[j][2] > cooldown_seconds}}

\* the failure map after the parole board's "del self.failed_keys[k]" loop
Parole(fk, current_time) ==
    SelectSeq(fk, LAMBDA e : e[1] \notin keys_to_free(fk, current_time))

\* available_keys that does not filter out the jailed keys
available_keys_All(ks, fk) == ks

\* available_keys = [k for k in self.keys if k not in self.failed_keys]
available_keys(ks, fk) == SelectSeq(ks, LAMBDA k : ~InDict(fk, k))

\* max in place of min: the first item whose ban time is maximal
OldestItem_Newest(fk) ==
    fk[CHOOSE i \in DOMAIN fk :
          /\ \A j \in DOMAIN fk : fk[j][2] <= fk[i][2]
          /\ \A j \in 1..(i-1) : fk[j][2] < fk[i][2]]

\* min(self.failed_keys.items(), key=lambda x: x[1]): the first item, in
\* iteration order, whose ban time is minimal
OldestItem(fk) ==
    fk[CHOOSE i \in DOMAIN fk :
          /\ \A j \in DOMAIN fk : fk[j][2] >= fk[i][2]
          /\ \A j \in 1..(i-1) : fk[j][2] > fk[i][2]]

\* Jailbreak without the "time_in_jail < 10" guard
Jailbreak_NoGrace(fk, current_time) ==
    IF Len(fk) = 0
    THEN {[ret |-> None, failed_keys |-> fk]}
    ELSE LET oldest == fk[CHOOSE i \in DOMAIN fk :
                             \A j \in DOMAIN fk : fk[j][2] >= fk[i][2]]
         IN {[ret |-> oldest[1], failed_keys |-> DictDel(fk, oldest[1])]}

\* the smart jailbreak: no key is available
Jailbreak(fk, current_time) ==
    IF Len(fk) = 0
    THEN {[ret |-> None, failed_keys |-> fk]}
    ELSE LET oldest == OldestItem(fk)
             time_in_jail == current_time - oldest[2]
         IN IF time_in_jail < MinGraceSeconds
            THEN {[ret |-> None, failed_keys |-> fk]}
            ELSE {[ret |-> oldest[1], failed_keys |-> DictDel(fk, oldest[1])]}

\* get_next_key: the set of its possible outcomes (random.choice picks any
\* available key), each the returned key and the failure map left behind
get_next_key(ks, fk, current_time) ==
    IF Len(ks) = 0
    THEN {[ret |-> None, failed_keys |-> fk]}
    ELSE LET freed == Parole(fk, current_time)
             avail == available_keys(ks, freed)
         IN IF Len(avail) = 0
            THEN Jailbreak(freed, current_time)
            ELSE {[ret |-> avail[i], failed_keys |-> freed] : i \in DOMAIN avail}

\* report_failure writing back a stale, empty copy of the map with its entry
report_failure_Overwrite(fk, key, current_time) == <<<<key, current_time>>>>

\* report_failure: self.failed_keys[key] = time.time()
report_failure(fk, key, current_time) == DictSet(fk, key, current_time)

\* get_key_count
get_key_count(ks) == Len(ks)

(***************************************************************************)
(* History of the pool calls                                               *)
(***************************************************************************)
NoCall == [op |-> "none"]

\* the record of a get_next_key call with outcome o
SelectCall(o) ==
    [op |-> "get_next_key", ret |-> o.ret]

\* the record of a report_failure(k) call
ReportCall(k) == [op |-> "report_failure", key |-> k]

(***************************************************************************)
(* str helpers                                                             *)
(***************************************************************************)
\* needle in hay
Contains(hay, needle) ==
    \E i \in 0..(Len(hay) - Len(needle)) :
        SubSeq(hay, i + 1, i + Len(needle)) = needle

\* "".join(frags)
RECURSIVE Concat(_)
Concat(frags) ==
    IF frags = <<>> THEN <<>> ELSE Head(frags) \o Concat(Tail(frags))

(***************************************************************************)
(* Messages.  The content of a chat message is a record of what the server *)
(* reads of it: its length, and the phrase it holds (text); id tells two   *)
(* messages of a conversation apart.                                       *)
(***************************************************************************)
Message(role, id, len, text) ==
    [role |-> role, content |-> [id |-> id, len |-> len, text |-> text]]

\* content.lower()
Lower(text) ==
    CASE text = "CRISIS PROTOCOL" -> "crisis protocol"
      [] text = "Damage Control" -> "damage control"
      [] text = "Hello" -> "hello"
      [] OTHER -> text

\* the system message: {"role": "system", "content": state.system_prompt}
system_message == Message("system", 0, 1, "DEFAULT_SYSTEM_PROMPT")

\* last_user_msg
last_user_msg(messages) ==
    IF Len(messages) > 0 /\ messages[Len(messages)].role = "user"
    THEN Lower(messages[Len(messages)].content.text)
    ELSE ""

\* "damage control" in last_user_msg or "crisis protocol" in last_user_msg
IsCrisis(messages) == last_user_msg(messages) \in CrisisPhrases

\* a window that keeps the first 10 messages instead of the last
SlidingWindow_First(messages) ==
    IF Len(messages) > WindowSize
    THEN SubSeq(messages, 1, WindowSize)
    ELSE messages

\* user_messages[-10:] when there are more than 10 messages
SlidingWindow(messages) ==
    IF Len(messages) > WindowSize
    THEN SubSeq(messages, Len(messages) - WindowSize + 1, Len(messages))
    ELSE messages

(***************************************************************************)
(* validate_request: the HTTP status it raises, 200 when it raises nothing *)
(***************************************************************************)
\* validate_request that looks at the first message only
validate_request_FirstOnly(messages, origin) ==
    IF origin # "" /\ origin \notin ALLOWED_ORIGINS
    THEN [status |-> 403, detail |-> "Origin Forbidden"]
    ELSE IF Len(messages) > MAX_HISTORY_LENGTH + 1
    THEN [status |-> 400, detail |-> "Payload too large: History exceeds limit."]
    ELSE IF Len(messages) > 0 /\ messages[1].content.len > MAX_CHAR_PER_MSG
    THEN [status |-> 400, detail |-> "Message too long."]
    ELSE [status |-> 200, detail |-> ""]

\* validate_request without the "+ 1 for System"
validate_request_NoSystemSlot(messages, origin) ==
    IF origin # "" /\ origin \notin ALLOWED_ORIGINS
    THEN [status |-> 403, detail |-> "Origin Forbidden"]
    ELSE IF Len(messages) > MAX_HISTORY_LENGTH
    THEN [status |-> 400, detail |-> "Payload too large: History exceeds limit."]
    ELSE IF \E i \in DOMAIN messages : messages[i].content.len > MAX_CHAR_PER_MSG
    THEN [status |-> 400, detail |-> "Message too long."]
    ELSE [status |-> 200, detail |-> ""]

validate_request(messages, origin) ==
    IF origin # "" /\ origin \notin ALLOWED_ORIGINS
    THEN [status |-> 403, detail |-> "Origin Forbidden"]
    ELSE IF Len(messages) > MAX_HISTORY_LENGTH + 1
    THEN [status |-> 400, detail |-> "Payload too large: History exceeds limit."]
    ELSE IF \E i \in DOMAIN messages : messages[i].content.len > MAX_CHAR_PER_MSG
    THEN [status |-> 400, detail |-> "Message too long."]
    ELSE [status |-> 200, detail |-> ""]

(***************************************************************************)
(* DatabaseManager: the document users/{uid}.  Each operator gives the     *)
(* document an undisturbed call leaves behind; a call that fails (no       *)
(* Firestore client, an exception, all caught and logged) leaves the       *)
(* document as it was.                                                     *)
(***************************************************************************)
NoDoc == [exists |-> FALSE]

\* the session ids: a uuid4, or one of the literals the endpoint falls back on
Uuid(n) == <<"uuid", n>>

\* get_or_create_profile
get_or_create_profile(doc, t) ==
    IF doc.exists
    THEN [doc EXCEPT !.last_active = t]
    ELSE [exists |-> TRUE, last_active |-> t, status |-> "in_progress",
          sessions |-> <<>>, total_messages |-> 0, access_granted |-> FALSE,
          form_submitted |-> FALSE]

\* start_session: doc_ref.update raises on a missing document
start_session(doc, session_id, t) ==
    IF ~doc.exists
    THEN doc
    ELSE [doc EXCEPT
            !.sessions = Append(@, [session_id |-> session_id, started_at |-> t,
                                    messages |-> <<>>, outcome |-> "in_progress",
                                    last_checkpoint |-> NoTime,
                                    granted_at |-> NoTime]),
            !.last_active = t]

\* the first session with the given id, 0 when there is none
FindSession(sessions, session_id) ==
    IF \E i \in DOMAIN sessions : sessions[i].session_id = session_id
    THEN CHOOSE i \in DOMAIN sessions :
            /\ sessions[i].session_id = session_id
            /\ \A j \in 1..(i-1) : sessions[j].session_id # session_id
    ELSE 0

\* save_chat_checkpoint
save_chat_checkpoint(doc, session_id, messages, force, t) ==
    IF ~force /\ Len(messages) % CheckpointEvery # 0
    THEN doc
    ELSE IF ~doc.exists
    THEN doc
    ELSE LET i == FindSession(doc.sessions, session_id)
         IN [doc EXCEPT
               !.sessions = IF i = 0 THEN @
                            ELSE [@ EXCEPT ![i].messages = messages,
                                           ![i].last_checkpoint = t],
               !.total_messages = Len(messages),
               !.last_active = t]

\* mark_access_granted that marks the session and not the user
mark_access_granted_SessionOnly(doc, session_id, t) ==
    IF ~doc.exists
    THEN doc
    ELSE LET i == FindSession(doc.sessions, session_id)
         IN [doc EXCEPT
               !.sessions = IF i = 0 THEN @
                            ELSE [@ EXCEPT ![i].outcome = "granted",
                                           ![i].granted_at = t],
               !.last_active = t]

\* mark_access_granted
mark_access_granted(doc, session_id, t) ==
    IF ~doc.exists
    THEN doc
    ELSE LET i == FindSession(doc.sessions, session_id)
         IN [doc EXCEPT
               !.sessions = IF i = 0 THEN @
                            ELSE [@ EXCEPT ![i].outcome = "granted",
                                           ![i].granted_at = t],
               !.access_granted = TRUE,
               !.status = "granted",
               !.last_active = t]

\* save_chat_checkpoint from its doc_ref.get() on: the session list it
\* writes is the one of data, the document it read, whatever doc holds by
\* the time of its doc_ref.update, which replaces the three fields it names
CheckpointUpdate(doc, data, session_id, messages, t) ==
    LET i == FindSession(data.sessions, session_id)
    IN [doc EXCEPT
          !.sessions = IF i = 0 THEN data.sessions
                       ELSE [data.sessions EXCEPT ![i].messages = messages,
                                                  ![i].last_checkpoint = t],
          !.total_messages = Len(messages),
          !.last_active = t]

\* mark_access_granted from its doc_ref.get() on, likewise
GrantUpdate(doc, data, session_id, t) ==
    LET i == FindSession(data.sessions, session_id)
    IN [doc EXCEPT
          !.sessions = IF i = 0 THEN data.sessions
                       ELSE [data.sessions EXCEPT ![i].outcome = "granted",
                                                  ![i].granted_at = t],
          !.access_granted = TRUE,
          !.status = "granted",
          !.last_active = t]

\* session_id or "<literal>"
SessionOr(session_id, literal) ==
    IF session_id = NoSession THEN <<literal>> ELSE session_id

(***************************************************************************)
(* POST /chat.  A request slot holds the locals of chat_endpoint and of    *)
(* its generator generate(); pc is the place the request has reached:      *)
(*   idle        no request                                                *)
(*   profile     awaiting db.get_or_create_profile                         *)
(*   session     awaiting db.start_session                                 *)
(*   checkpoint  awaiting db.save_chat_checkpoint                          *)
(*   gate        at the crisis and persistence rules                       *)
(*   select      at the head of the Hydra loop                             *)
(*   open        a key in hand, about to call the inference service        *)
(*   stream      reading the chunks of the completion                      *)
(*   grant       awaiting db.mark_access_granted after the stream's end    *)
(*   done        the response is complete                                  *)
(*   closed      the caller went away and the generator was closed         *)
(* Where requests of one user run at the same time, a store call that      *)
(* reads the document and then writes it is two steps, the document read   *)
(* kept in data:                                                           *)
(*   profile_write     get_or_create_profile between its get and its write *)
(*   checkpoint_write  save_chat_checkpoint between its get and its update *)
(*   grant_write       mark_access_granted between its get and its update  *)
(* out is what the caller has been sent so far, status the HTTP status.    *)
(***************************************************************************)
IdleReq ==
    [pc |-> "idle", messages |-> <<>>, origin |-> "", authorization |-> "none",
     user_uid |-> NoUser, session_id |-> NoSession, upstream |-> <<>>,
     attempts |-> 0, success |-> FALSE, api_key |-> None,
     stream |-> <<>>, pos |-> 0, full_response |-> <<>>,
     out |-> <<>>, status |-> 0, detail |-> "",
     \* history: EMERGENCY_MODE as the request found it, and the
     \* get_next_key, report_failure and mark_access_granted calls of
     \* this request
     emergency |-> FALSE, selections |-> 0, reports |-> 0, grants |-> 0,
     \* the document a store call of this request has read and not yet
     \* written back
     data |-> NoDoc,
     \* the caller has gone away
     disconnected |-> FALSE]

\* auth.verify_id_token on the bearer token: the uid, or no user when the
\* header is missing or the token is refused
TokenUid(authorization) ==
    IF authorization \in Users THEN authorization ELSE NoUser

\* chat_endpoint with the payload validation ahead of the emergency bypass
Entry_ValidateFirst(emergency, fresh) ==
    LET v == validate_request(fresh.messages, fresh.origin)
    IN IF v.status # 200
       THEN [fresh EXCEPT !.pc = "done", !.status = v.status, !.detail = v.detail]
       ELSE IF emergency
       THEN [fresh EXCEPT !.pc = "done", !.status = 200, !.out = <<EMERGENCY_MSG>>]
       ELSE IF TokenUid(fresh.authorization) # NoUser
       THEN [fresh EXCEPT !.pc = "profile",
                          !.user_uid = TokenUid(fresh.authorization)]
       ELSE [fresh EXCEPT !.pc = "gate"]

\* chat_endpoint up to its first await: the emergency bypass, the payload
\* validation, the bearer token
Entry(emergency, fresh) ==
    IF emergency
    THEN [fresh EXCEPT !.pc = "done", !.status = 200, !.out = <<EMERGENCY_MSG>>]
    ELSE LET v == validate_request(fresh.messages, fresh.origin)
         IN IF v.status # 200
            THEN [fresh EXCEPT !.pc = "done", !.status = v.status,
                               !.detail = v.detail]
            ELSE IF TokenUid(fresh.authorization) # NoUser
            THEN [fresh EXCEPT !.pc = "profile",
                               !.user_uid = TokenUid(fresh.authorization)]
            ELSE [fresh EXCEPT !.pc = "gate"]

\* a /chat request arrives
ChatEndpoint(r, m, orig, auth) ==
    /\ rq[r].pc \in {"idle", "done"}
    /\ budget > 0
    /\ budget' = budget - 1
    /\ rq' = [rq EXCEPT ![r] =
                Entry(EMERGENCY_MODE,
                      [IdleReq EXCEPT !.messages = m, !.origin = orig,
                                      !.authorization = auth,
                                      !.emergency = EMERGENCY_MODE])]
    /\ lastCall' = NoCall
    /\ UNCHANGED <<keys, failed_keys, now, issued, lastReport,
                   EMERGENCY_MODE, db, nextSid, notified>>

\* how a call into the profile store can end as seen from chat_endpoint: it
\* stores, it fails inside (the method catches and returns), or the awaited
\* call itself raises and the surrounding try/except swallows it
DbOutcomes == {"ok", "fails", "raises"}

\* await asyncio.to_thread(db.get_or_create_profile, ...)
Profile(r) ==
    /\ rq[r].pc = "profile"
    /\ \E res \in DbOutcomes :
         db' = [db EXCEPT ![rq[r].user_uid] =
                  IF res = "ok" THEN get_or_create_profile(@, now) ELSE @]
    /\ rq' = [rq EXCEPT ![r].pc =
                IF Len(rq[r].messages) <= 1 THEN "session" ELSE "checkpoint"]
    /\ lastCall' = NoCall
    /\ UNCHANGED <<keys, failed_keys, now, issued, lastReport,
                   EMERGENCY_MODE, nextSid, budget, notified>>

\* session_id = await asyncio.to_thread(db.start_session, user_uid)
Session(r) ==
    /\ rq[r].pc = "session"
    /\ nextSid' = nextSid + 1
    /\ \E res \in DbOutcomes :
         /\ db' = [db EXCEPT ![rq[r].user_uid] =
                     IF res = "ok" THEN start_session(@, Uuid(nextSid'), now) ELSE @]
         /\ rq' = [rq EXCEPT ![r].pc = "checkpoint",
                             ![r].session_id = IF res = "raises" THEN NoSession
                                               ELSE Uuid(nextSid')]
    /\ notified' = [notified EXCEPT ![rq[r].user_uid] = 0]
    /\ lastCall' = NoCall
    /\ UNCHANGED <<keys, failed_keys, now, issued, lastReport,
                   EMERGENCY_MODE, budget>>

\* await asyncio.to_thread(db.save_chat_checkpoint, ...)
Checkpoint(r) ==
    /\ rq[r].pc = "checkpoint"
    /\ \E res \in DbOutcomes :
         db' = [db EXCEPT ![rq[r].user_uid] =
                  IF res = "ok"
                  THEN save_chat_checkpoint(@, SessionOr(rq[r].session_id, "unknown"),
                                            rq[r].messages, FALSE, now)
                  ELSE @]
    /\ rq' = [rq EXCEPT ![r].pc = "gate"]
    /\ lastCall' = NoCall
    /\ UNCHANGED <<keys, failed_keys, now, issued, lastReport,
                   EMERGENCY_MODE, nextSid, budget, notified>>

\* "if user_uid: await asyncio.to_thread(db.mark_access_granted, ...)": the
\* call is made for a known user only, and its failure is swallowed
MarkGranted(uid, session_id, ok) ==
    IF uid = NoUser
    THEN UNCHANGED <<db, notified>>
    ELSE /\ notified' = [notified EXCEPT ![uid] = @ + 1]
         /\ db' = [db EXCEPT ![uid] =
                    IF ok THEN mark_access_granted(@, session_id, now) ELSE @]

\* total_messages >= 40, with > in place of >=
IsPersistent_Strict(messages) == Len(messages) > PersistenceThreshold

\* total_messages >= 40
IsPersistent(messages) == Len(messages) >= PersistenceThreshold

\* the persistence reward tested ahead of the crisis protocol
Route_PersistenceFirst(messages) ==
    IF IsPersistent(messages) THEN "persistence"
    ELSE IF IsCrisis(messages) THEN "crisis"
    ELSE "normal"

\* the rule that answers the turn: the crisis protocol, the persistence
\* reward, or the model
Route(messages) ==
    IF IsCrisis(messages) THEN "crisis"
    ELSE IF IsPersistent(messages) THEN "persistence"
    ELSE "normal"

\* steps 4 and 5 of chat_endpoint, and the context for the model
Gate(r) ==
    /\ rq[r].pc = "gate"
    /\ LET q == rq[r]
           route == Route(q.messages)
       IN IF route = "normal"
          THEN /\ rq' = [rq EXCEPT ![r].pc = "select", ![r].status = 200,
                                   ![r].upstream = <<system_message>> \o
                                                   SlidingWindow(q.messages)]
               /\ UNCHANGED <<db, notified>>
          ELSE /\ \E res \in DbOutcomes :
                    MarkGranted(q.user_uid, SessionOr(q.session_id, route), res = "ok")
               /\ rq' = [rq EXCEPT ![r].pc = "done", ![r].status = 200,
                                   ![r].out = IF route = "crisis"
                                              THEN <<crisis_msg>>
                                              ELSE <<persistence_msg>>,
                                   ![r].grants = IF q.user_uid = NoUser
                                                 THEN 0 ELSE 1]
    /\ lastCall' = NoCall
    /\ UNCHANGED <<keys, failed_keys, now, issued, lastReport,
                   EMERGENCY_MODE, nextSid, budget>>
(***************************************************************************)
(* generate(): the Hydra execution loop and the secret-token detector      *)
(***************************************************************************)
\* the errors the loop tells apart: rate limit, invalid key, anything else
ErrorKinds == {"429", "401", "other"}

\* a loop that reports the key only for the errors it has a name for
Reports_Classified(kind) == kind \in {"429", "401"}

\* the three branches of the except block: each calls
\* key_manager.report_failure(api_key)
Reports(kind) == TRUE

\* "while attempts < max_attempts", with <= in place of <
LoopContinues_OffByOne(attempts) == attempts <= max_attempts

\* while attempts < max_attempts
LoopContinues(attempts) == attempts < max_attempts

\* the fail state that yields the fallback reply whatever success is
FailState_Always(success, out) == Append(out, FALLBACK_MSG)

\* after the loop: "if not success: yield <the fallback reply>"
FailState(success, out) ==
    IF ~success THEN Append(out, FALLBACK_MSG) ELSE out

\* the head of the loop: leave it when the attempts are used up or the pool
\* has no key to give, and then yield the fail-state reply
Select(r) ==
    /\ rq[r].pc = "select"
    /\ IF LoopContinues(rq[r].attempts)
       THEN \E o \in get_next_key(keys, failed_keys, now) :
              /\ failed_keys' = o.failed_keys
              /\ issued' = issued \cup ({o.ret} \ {None})
              /\ lastCall' = SelectCall(o)
              /\ rq' = [rq EXCEPT
                          ![r].selections = @ + 1,
                          ![r].api_key = o.ret,
                          ![r].pc = IF o.ret = None THEN "done" ELSE "open",
                          ![r].out = IF o.ret = None
                                     THEN FailState(rq[r].success, @) ELSE @]
       ELSE /\ rq' = [rq EXCEPT ![r].pc = "done",
                                ![r].out = FailState(rq[r].success, @)]
            /\ lastCall' = NoCall
            /\ UNCHANGED <<failed_keys, issued>>
    /\ UNCHANGED <<keys, now, lastReport, EMERGENCY_MODE, db, nextSid,
                   budget, notified>>

\* client.chat.completions.create(...) returns the stream s
Open(r, s) ==
    /\ rq[r].pc = "open"
    /\ rq' = [rq EXCEPT ![r].pc = "stream", ![r].stream = s, ![r].pos = 0,
                        ![r].full_response = <<>>]
    /\ lastCall' = NoCall
    /\ UNCHANGED <<keys, failed_keys, now, issued, lastReport,
                   EMERGENCY_MODE, db, nextSid, budget, notified>>

\* the call or the stream raises: every kind of error is reported against
\* the key, and the loop goes on with one more attempt counted
Fail(r, kind) ==
    /\ rq[r].pc \in {"open", "stream"}
    /\ kind \in ErrorKinds
    /\ failed_keys' = IF Reports(kind)
                      THEN report_failure(failed_keys, rq[r].api_key, now)
                      ELSE failed_keys
    /\ lastReport' = IF Reports(kind)
                     THEN [lastReport EXCEPT ![rq[r].api_key] = now]
                     ELSE lastReport
    /\ lastCall' = IF Reports(kind) THEN ReportCall(rq[r].api_key) ELSE NoCall
    /\ rq' = [rq EXCEPT ![r].pc = "select", ![r].attempts = @ + 1,
                        ![r].reports = IF Reports(kind) THEN @ + 1 ELSE @]
    /\ UNCHANGED <<keys, now, issued, EMERGENCY_MODE, db, nextSid, budget,
                   notified>>

\* the chunk is yielded to the caller whatever it holds
Forwarded_Always(chunk_text) == TRUE

\* the chunk is withheld only when it is the token and nothing else
Forwarded_Exact(chunk_text) == chunk_text # SECRET_ACCESS_TOKEN

\* if SECRET_ACCESS_TOKEN not in chunk_text: yield chunk_text
Forwarded(chunk_text) == ~Contains(chunk_text, SECRET_ACCESS_TOKEN)

\* the accumulator keeps only what was yielded
Accumulate_ForwardedOnly(full_response, chunk_text) ==
    IF ~Contains(chunk_text, SECRET_ACCESS_TOKEN)
    THEN full_response \o chunk_text ELSE full_response

\* full_response += chunk_text
Accumulate(full_response, chunk_text) == full_response \o chunk_text

\* one turn of "for chunk in completion": a chunk without content is skipped
Read(r) ==
    /\ rq[r].pc = "stream"
    /\ rq[r].pos < Len(rq[r].stream)
    /\ LET chunk_text == rq[r].stream[rq[r].pos + 1]
       IN rq' = [rq EXCEPT
                   ![r].pos = @ + 1,
                   ![r].full_response =
                       IF chunk_text # <<>> THEN Accumulate(@, chunk_text) ELSE @,
                   ![r].out =
                       IF chunk_text # <<>> /\ Forwarded(chunk_text)
                       THEN Append(@, chunk_text) ELSE @]
    /\ lastCall' = NoCall
    /\ UNCHANGED <<keys, failed_keys, now, issued, lastReport,
                   EMERGENCY_MODE, db, nextSid, budget, notified>>

\* the signal yielded while mark_access_granted is pending, and not after
YieldSignal_NoWait(pending, stored, out) ==
    IF pending THEN Append(out, GATE_OPEN_SIGNAL) ELSE out

\* the signal yielded only when mark_access_granted has stored the grant
YieldSignal_IfStored(pending, stored, out) ==
    IF pending \/ ~stored THEN out ELSE Append(out, GATE_OPEN_SIGNAL)

\* yield "\n[[GATE_OPEN]]": it follows the awaited mark_access_granted call
\* (when there is a user to mark), whatever that call returned or raised
YieldSignal(pending, stored, out) ==
    IF pending THEN out ELSE Append(out, GATE_OPEN_SIGNAL)

\* if SECRET_ACCESS_TOKEN in full_response
TokenSeen(full_response) == Contains(full_response, SECRET_ACCESS_TOKEN)

\* the stream is exhausted: with the token in the reply, mark the user (when
\* there is one) and then signal the frontend; success either way
StreamEnd(r) ==
    /\ rq[r].pc = "stream"
    /\ rq[r].pos = Len(rq[r].stream)
    /\ rq' = [rq EXCEPT
                ![r].pc = IF TokenSeen(rq[r].full_response) /\ rq[r].user_uid # NoUser
                          THEN "grant" ELSE "done",
                ![r].success = ~(TokenSeen(rq[r].full_response)
                                 /\ rq[r].user_uid # NoUser),
                ![r].out = IF TokenSeen(rq[r].full_response)
                           THEN IF rq[r].user_uid = NoUser
                                THEN FailState(TRUE, YieldSignal(FALSE, TRUE, @))
                                ELSE YieldSignal(TRUE, TRUE, @)
                           ELSE FailState(TRUE, @)]
    /\ lastCall' = NoCall
    /\ UNCHANGED <<keys, failed_keys, now, issued, lastReport,
                   EMERGENCY_MODE, db, nextSid, budget, notified>>

\* await asyncio.to_thread(db.mark_access_granted, ...) returns, and the
\* signal is yielded
Grant(r) ==
    /\ rq[r].pc = "grant"
    /\ \E res \in DbOutcomes :
          /\ MarkGranted(rq[r].user_uid,
                         SessionOr(rq[r].session_id, "unknown"), res = "ok")
          /\ rq' = [rq EXCEPT
                      ![r].pc = "done", ![r].success = TRUE,
                      ![r].grants = @ + 1,
                      ![r].out = FailState(TRUE, YieldSignal(FALSE, res = "ok", @))]
    /\ lastCall' = NoCall
    /\ UNCHANGED <<keys, failed_keys, now, issued, lastReport,
                   EMERGENCY_MODE, nextSid, budget>>

(***************************************************************************)
(* The store calls of chat_endpoint in two steps: they run in worker       *)
(* threads (asyncio.to_thread) and outside any transaction, so the calls   *)
(* of another request of the same user can fall between the read and the   *)
(* write of one.                                                           *)
(***************************************************************************)
\* the place chat_endpoint goes on from after get_or_create_profile
AfterProfile(messages) ==
    IF Len(messages) <= 1 THEN "session" ELSE "checkpoint"

\* get_or_create_profile up to doc_ref.get(); when the read fails the call
\* is over
ProfileRead(r) ==
    /\ rq[r].pc = "profile"
    /\ \E res \in DbOutcomes :
         rq' = [rq EXCEPT
                  ![r].pc = IF res = "ok" THEN "profile_write"
                            ELSE AfterProfile(rq[r].messages),
                  ![r].data = IF res = "ok" THEN db[rq[r].user_uid] ELSE NoDoc]
    /\ lastCall' = NoCall
    /\ UNCHANGED <<keys, failed_keys, now, issued, lastReport,
                   EMERGENCY_MODE, db, nextSid, budget, notified>>

\* get_or_create_profile from its doc_ref.get() on: when the document read
\* exists, doc_ref.update of last_active; when it does not, doc_ref.set of
\* a new profile, which replaces whatever the document holds by then
ProfileUpdate(doc, data, t) ==
    IF data.exists
    THEN IF doc.exists THEN [doc EXCEPT !.last_active = t] ELSE doc
    ELSE get_or_create_profile(NoDoc, t)

\* get_or_create_profile: doc_ref.update(...) or doc_ref.set(profile)
ProfileWrite(r) ==
    /\ rq[r].pc = "profile_write"
    /\ \E res \in DbOutcomes :
         db' = [db EXCEPT ![rq[r].user_uid] =
                  IF res = "ok" THEN ProfileUpdate(@, rq[r].data, now) ELSE @]
    /\ rq' = [rq EXCEPT ![r].pc = AfterProfile(rq[r].messages),
                        ![r].data = NoDoc]
    /\ lastCall' = NoCall
    /\ UNCHANGED <<keys, failed_keys, now, issued, lastReport,
                   EMERGENCY_MODE, nextSid, budget, notified>>

\* save_chat_checkpoint up to doc_ref.get(): it returns at once unless the
\* number of messages is a multiple of 10, and when the document is missing
\* or the read fails
CheckpointRead(r) ==
    /\ rq[r].pc = "checkpoint"
    /\ \E res \in DbOutcomes :
         LET doc == db[rq[r].user_uid]
             reads == /\ res = "ok"
                      /\ Len(rq[r].messages) % CheckpointEvery = 0
                      /\ doc.exists
         IN rq' = [rq EXCEPT
                     ![r].pc = IF reads THEN "checkpoint_write" ELSE "gate",
                     ![r].data = IF reads THEN doc ELSE NoDoc]
    /\ lastCall' = NoCall
    /\ UNCHANGED <<keys, failed_keys, now, issued, lastReport,
                   EMERGENCY_MODE, db, nextSid, budget, notified>>

\* save_chat_checkpoint: doc_ref.update({"sessions": sessions, ...})
CheckpointWrite(r) ==
    /\ rq[r].pc = "checkpoint_write"
    /\ \E res \in DbOutcomes :
         db' = [db EXCEPT ![rq[r].user_uid] =
                  IF res = "ok"
                  THEN CheckpointUpdate(@, rq[r].data,
                                        SessionOr(rq[r].session_id, "unknown"),
                                        rq[r].messages, now)
                  ELSE @]
    /\ rq' = [rq EXCEPT ![r].pc = "gate", ![r].data = NoDoc]
    /\ lastCall' = NoCall
    /\ UNCHANGED <<keys, failed_keys, now, issued, lastReport,
                   EMERGENCY_MODE, nextSid, budget, notified>>

\* mark_access_granted up to doc_ref.get(); when the document is missing or
\* the read fails the call is over, and the signal is yielded
GrantRead(r) ==
    /\ rq[r].pc = "grant"
    /\ \E res \in DbOutcomes :
         LET doc == db[rq[r].user_uid]
             reads == res = "ok" /\ doc.exists
         IN /\ rq' = [rq EXCEPT
                       ![r].pc = IF reads THEN "grant_write" ELSE "done",
                       ![r].data = IF reads THEN doc ELSE NoDoc,
                       ![r].success = ~reads,
                       ![r].grants = IF reads THEN @ ELSE @ + 1,
                       ![r].out = IF reads THEN @
                                  ELSE FailState(TRUE,
                                                 YieldSignal(FALSE, FALSE, @))]
            /\ notified' = [notified EXCEPT ![rq[r].user_uid] =
                                IF reads THEN @ ELSE @ + 1]
    /\ lastCall' = NoCall
    /\ UNCHANGED <<keys, failed_keys, now, issued, lastReport,
                   EMERGENCY_MODE, db, nextSid, budget>>

\* mark_access_granted: doc_ref.update({"sessions": sessions, ...}), and
\* then the signal is yielded
GrantWrite(r) ==
    /\ rq[r].pc = "grant_write"
    /\ \E res \in DbOutcomes :
         /\ db' = [db EXCEPT ![rq[r].user_uid] =
                     IF res = "ok"
                     THEN GrantUpdate(@, rq[r].data,
                                      SessionOr(rq[r].session_id, "unknown"),
                                      now)
                     ELSE @]
         /\ rq' = [rq EXCEPT
                     ![r].pc = "done", ![r].success = TRUE,
                     ![r].data = NoDoc,
                     ![r].grants = @ + 1,
                     ![r].out = FailState(TRUE,
                                          YieldSignal(FALSE, res = "ok", @))]
    /\ notified' = [notified EXCEPT ![rq[r].user_uid] = @ + 1]
    /\ lastCall' = NoCall
    /\ UNCHANGED <<keys, failed_keys, now, issued, lastReport,
                   EMERGENCY_MODE, nextSid, budget>>

(***************************************************************************)
(* POST /admin/emergency_override                                          *)
(***************************************************************************)
ADMIN_SECRET == "bits-gigachad-admin-2024"

\* the record of a toggle request and its HTTP answer
ToggleCall(secret, enable, status) ==
    [op |-> "toggle_emergency", secret |-> secret, enable |-> enable,
     status |-> status]

\* a control that takes any secret
Authorized_Any(secret) == TRUE

\* not (data.secret != ADMIN_SECRET)
Authorized(secret) == secret = ADMIN_SECRET

toggle_emergency(secret, enable) ==
    /\ EMERGENCY_MODE' = IF Authorized(secret) THEN enable ELSE EMERGENCY_MODE
    /\ lastCall' = ToggleCall(secret, enable,
                              IF Authorized(secret) THEN 200 ELSE 403)
    /\ UNCHANGED <<keys, failed_keys, now, issued, lastReport, db, rq,
                   nextSid, budget, notified>>

(***************************************************************************)
(* POST /submit                                                            *)
(***************************************************************************)
\* the e-mail addresses a verified token may carry: of the institute, of a
\* domain whose name merely ends like the institute's, of elsewhere, none
Emails ==
    {"f2023@pilani.bits-pilani.ac.in", "x@notbits-pilani.ac.in",
     "x@gmail.com", ""}

\* email and email.endswith("bits-pilani.ac.in")
EndsWithBits(email) ==
    email \in {"f2023@pilani.bits-pilani.ac.in", "x@notbits-pilani.ac.in"}

\* the Authorization headers of /submit: none, a token that is refused, a
\* token that has expired, the token of a user
SubmitAuths == {"none", "refused", "expired"} \cup Users

\* the record of a /submit call: the user it was for and its HTTP answer
SubmitCall(uid, status, detail) ==
    [op |-> "submit", uid |-> uid, status |-> status, detail |-> detail]

\* check_user_status(uid).get("access_granted"): falsy when the document is
\* missing or the read failed
StatusGranted(doc, res) == res = "ok" /\ doc.exists /\ doc.access_granted

\* save_candidate_authenticated with a uid: doc_ref.update raises on a
\* missing document, and the method then returns False
save_candidate_authenticated(doc) ==
    [doc EXCEPT !.form_submitted = TRUE, !.status = "submitted"]

\* submit_secure that enforces the gate (the raise the code has commented
\* out)
MaySubmit_Strict(granted) == granted

\* "if not user_status.get('access_granted')": the code logs a warning and
\* goes on
MaySubmit(granted) == TRUE

\* submit_secure: every HTTPException raised inside its try block (403, 500)
\* is caught by "except Exception" and answered as 401
submit_secure(authorization, email, check, save) ==
    LET uid == TokenUid(authorization)
        doc == IF uid = NoUser THEN NoDoc ELSE db[uid]
        stored == /\ uid # NoUser /\ EndsWithBits(email)
                  /\ check # "raises"
                  /\ MaySubmit(StatusGranted(doc, check))
                  /\ doc.exists /\ save = "ok"
    IN /\ db' = IF stored
                THEN [db EXCEPT ![uid] = save_candidate_authenticated(@)]
                ELSE db
       /\ lastCall' =
            IF authorization = "none"
            THEN SubmitCall(NoUser, 401, "Missing or invalid Authorization header")
            ELSE IF authorization = "expired"
            THEN SubmitCall(NoUser, 401, "Token expired")
            ELSE IF stored
            THEN SubmitCall(uid, 200, "success")
            ELSE SubmitCall(uid, 401, "Invalid authentication")
       /\ UNCHANGED <<keys, failed_keys, now, issued, lastReport,
                      EMERGENCY_MODE, rq, nextSid, budget, notified>>

(***************************************************************************)
(* The caller goes away.  The response stops iterating generate() and the  *)
(* generator is closed where it is suspended, at the yield of a chunk:     *)
(* GeneratorExit is raised there, inside the try block of the attempt.     *)
(***************************************************************************)
\* what is raised in generate() when the caller is gone
Closings == {"GeneratorExit"}

\* a bare except, which catches whatever is raised
Catches_Bare(exc) == TRUE

\* "except Exception as e": the errors of the inference service are caught,
\* GeneratorExit is a BaseException and is not
Catches(exc) == exc \in ErrorKinds

\* request r is suspended at "yield chunk_text"
AtYield(r) ==
    /\ rq[r].pc = "stream"
    /\ rq[r].pos > 0
    /\ rq[r].stream[rq[r].pos] # <<>>
    /\ Forwarded(rq[r].stream[rq[r].pos])

\* the generator of request r is closed at its yield: exc passes the except
\* block of the attempt, the fail state is not reached, the request is over
Disconnect(r, exc) ==
    /\ AtYield(r)
    /\ exc \in Closings
    /\ IF Catches(exc)
       THEN /\ failed_keys' = report_failure(failed_keys, rq[r].api_key, now)
            /\ lastReport' = [lastReport EXCEPT ![rq[r].api_key] = now]
            /\ lastCall' = ReportCall(rq[r].api_key)
            /\ rq' = [rq EXCEPT ![r].pc = "select", ![r].attempts = @ + 1,
                                ![r].reports = @ + 1,
                                ![r].disconnected = TRUE]
       ELSE /\ rq' = [rq EXCEPT ![r].pc = "closed", ![r].disconnected = TRUE]
            /\ lastCall' = NoCall
            /\ UNCHANGED <<failed_keys, lastReport>>
    /\ UNCHANGED <<keys, now, issued, EMERGENCY_MODE, db, nextSid, budget,
                   notified>>

(***************************************************************************)
(* The clock                                                               *)
(***************************************************************************)
Tick(step, limit) ==
    /\ now + step <= limit
    /\ now' = now + step
    /\ lastCall' = NoCall
    /\ UNCHANGED <<keys, failed_keys, issued, lastReport, EMERGENCY_MODE,
                   db, rq, nextSid, budget, notified>>

\* time passes while a request is in the Hydra loop
LoopTick(step, limit) ==
    /\ \E r \in Reqs : rq[r].pc \in {"select", "open", "stream"}
    /\ Tick(step, limit)

\* the steps of the request in slot r, its inputs drawn from the given sets
Request(r, conversations, origins, auths, streams) ==
    \/ \E m \in conversations, orig \in origins, auth \in auths :
          ChatEndpoint(r, m, orig, auth)
    \/ Profile(r)
    \/ Session(r)
    \/ Checkpoint(r)
    \/ Gate(r)
    \/ Select(r)
    \/ \E s \in streams : Open(r, s)
    \/ \E kind \in ErrorKinds : Fail(r, kind)
    \/ Read(r)
    \/ StreamEnd(r)
    \/ Grant(r)

\* the state at process start, but for the registered keys
Start ==
    /\ failed_keys = <<>>
    /\ now = 0
    /\ issued = {}
    /\ lastReport = [k \in 1..NumKeys |-> NoTime]
    /\ lastCall = NoCall
    /\ EMERGENCY_MODE = FALSE
    /\ db = [u \in Users |-> NoDoc]
    /\ rq = [r \in Reqs |-> IdleReq]
    /\ nextSid = 0
    /\ notified = [u \in Users |-> 0]

\* the key lists of n distinct keys, n in sizes
Pools(sizes) == {[i \in 1..n |-> i] : n \in sizes}

(***************************************************************************)
(* The inputs                                                              *)
(***************************************************************************)
\* a conversation of n messages, user and assistant in turn, the last one
\* with the given role and text, the one at longAt (if any) of length longLen
Conversation(n, lastRole, lastText, longAt, longLen) ==
    [i \in 1..n |->
        Message(IF i = n THEN lastRole
                ELSE IF i % 2 = 1 THEN "user" ELSE "assistant",
                i,
                IF i = longAt THEN longLen ELSE ShortLen,
                IF i = n THEN lastText ELSE "hello")]

\* every way to cut text into n fragments, empty ones among them (a chunk
\* of the service may carry no content)
RECURSIVE Cuts(_, _)
Cuts(text, n) ==
    IF n = 0
    THEN IF text = <<>> THEN {<<>>} ELSE {}
    ELSE UNION {{<<SubSeq(text, 1, a)>> \o rest :
                    rest \in Cuts(SubSeq(text, a + 1, Len(text)), n - 1)} :
                a \in 0..Len(text)}

\* the replies of the model the detector is tried on: no token, the token
\* alone, after and before other text, twice, and all but its last character
Replies ==
    {Clever,
     SECRET_ACCESS_TOKEN,
     Clever \o SECRET_ACCESS_TOKEN,
     SECRET_ACCESS_TOKEN \o Clever,
     SECRET_ACCESS_TOKEN \o SECRET_ACCESS_TOKEN,
     Clever \o SubSeq(SECRET_ACCESS_TOKEN, 1, Len(SECRET_ACCESS_TOKEN) - 1)}

\* the replies, cut in every way into MaxFrags chunks
CutStreams == UNION {Cuts(t, MaxFrags) : t \in Replies}

\* two replies in one chunk each, one without and one with the token
PlainStreams == {<<Clever>>, <<SECRET_ACCESS_TOKEN>>}

(***************************************************************************)
(* The pool under any sequence of calls: a caller selects a key, a caller  *)
(* reports a key it was given, time passes.                                *)
(***************************************************************************)
PoolInit ==
    /\ keys \in Pools(0..NumKeys)
    /\ budget = 0
    /\ Start

PoolGetNextKey ==
    \E o \in get_next_key(keys, failed_keys, now) :
        /\ failed_keys' = o.failed_keys
        /\ issued' = issued \cup ({o.ret} \ {None})
        /\ lastCall' = SelectCall(o)
        /\ UNCHANGED <<keys, now, lastReport>>
        /\ UNCHANGED gateVars

PoolReportFailure ==
    \E k \in issued :
        /\ failed_keys' = report_failure(failed_keys, k, now)
        /\ lastReport' = [lastReport EXCEPT ![k] = now]
        /\ lastCall' = ReportCall(k)
        /\ UNCHANGED <<keys, now, issued>>
        /\ UNCHANGED gateVars

PoolNext == PoolGetNextKey \/ PoolReportFailure \/ Tick(TickStep, MaxTime)

PoolSpec == PoolInit /\ [][PoolNext]_vars

(***************************************************************************)
(* One dispatch: a request of a signed-in user goes through the Hydra loop *)
(* while time passes.                                                      *)
(***************************************************************************)
Init ==
    /\ keys \in Pools(0..DispatchKeys)
    /\ budget = 1
    /\ Start

Next ==
    \/ Request(1, {Conversation(1, "user", "hello", 0, 0)}, {""}, Users,
               PlainStreams)
    \/ LoopTick(DispatchStep, DispatchTime)

Spec == Init /\ [][Next]_vars

(***************************************************************************)
(* The detector: one request, its reply cut into chunks in every way.      *)
(***************************************************************************)
StreamInit ==
    /\ keys \in Pools(1..StreamKeys)
    /\ budget = 1
    /\ Start

StreamNext ==
    Request(1, {Conversation(1, "user", "hello", 0, 0),
                Conversation(5, "user", "hello", 0, 0)},
            {""}, {"none"} \cup Users, CutStreams)

StreamSpec == StreamInit /\ [][StreamNext]_vars

(***************************************************************************)
(* The gate: a few turns of one user or of an unknown caller, of every     *)
(* size around the limits, while the administrator toggles the kill        *)
(* switch and time passes between the turns.                               *)
(***************************************************************************)
\* the numbers of messages of a turn: around the session start (1), the
\* persistence threshold and the history limit
GateSizes ==
    {1, PersistenceThreshold - 1, PersistenceThreshold,
     MAX_HISTORY_LENGTH + 1, MAX_HISTORY_LENGTH + 2}

\* the turns: the last message from the user, with or without a crisis
\* phrase, of ordinary length, of the greatest length allowed, or longer
GateConversations ==
    {Conversation(n, "user", text, n, len) :
        n \in GateSizes,
        text \in {"hello", "CRISIS PROTOCOL"},
        len \in {ShortLen, MAX_CHAR_PER_MSG, MAX_CHAR_PER_MSG + 1}}

\* no Origin header, an allowed origin, another origin
GateOrigins == {"", "http://localhost:3000", "https://evil.example"}

\* time passes between two turns
TurnTick(step, limit) ==
    /\ \A r \in Reqs : rq[r].pc \in {"idle", "done"}
    /\ Tick(step, limit)

GateInit ==
    /\ keys \in Pools({GateKeys})
    /\ budget = GateTurns
    /\ Start

GateNext ==
    \/ Request(1, GateConversations, GateOrigins, {"none"} \cup Users,
               PlainStreams)
    \/ \E secret \in {ADMIN_SECRET, "letmein"}, enable \in BOOLEAN :
          toggle_emergency(secret, enable)
    \/ TurnTick(TickStep, GateTime)

GateSpec == GateInit /\ [][GateNext]_vars

(***************************************************************************)
(* The window: one turn of every size around the window size, answered by  *)
(* the model.                                                              *)
(***************************************************************************)
\* the numbers of messages of a turn: none, one, around the window size,
\* and the most the normal path sees
WindowSizes ==
    {0, 1, WindowSize - 1, WindowSize, WindowSize + 1,
     PersistenceThreshold - 1}

\* the turns, the last message from the user or from the assistant
WindowConversations ==
    {Conversation(n, role, "hello", 0, 0) :
        n \in WindowSizes, role \in {"user", "assistant"}}

WindowInit ==
    /\ keys \in Pools(1..StreamKeys)
    /\ budget = 1
    /\ Start

WindowNext ==
    Request(1, WindowConversations, {""}, {"none"} \cup Users, PlainStreams)

WindowSpec == WindowInit /\ [][WindowNext]_vars

(***************************************************************************)
(* Scenario A: one dispatch on a pool of NumKeys healthy keys while time   *)
(* passes, and the callers that come to the pool once it has ended.        *)
(***************************************************************************)
\* time passes during the dispatch and after it
ScenarioTick(step, limit) ==
    /\ rq[1].pc \in {"select", "open", "stream", "grant", "done"}
    /\ Tick(step, limit)

ScenarioInit ==
    /\ keys \in Pools({NumKeys})
    /\ budget = 1
    /\ Start

\* the service refuses an attempt of request r, at most NumKeys - 1 of them
LimitedFail(r) ==
    \E kind \in ErrorKinds :
        rq[r].attempts < NumKeys - 1 /\ Fail(r, kind)

\* a later caller asks the pool for a key
LaterGetNextKey == rq[1].pc = "done" /\ PoolGetNextKey

ScenarioNext ==
    \/ ChatEndpoint(1, Conversation(1, "user", "hello", 0, 0), "", "u1")
    \/ Profile(1)
    \/ Session(1)
    \/ Checkpoint(1)
    \/ Gate(1)
    \/ Select(1)
    \/ \E s \in PlainStreams : Open(1, s)
    \/ LimitedFail(1)
    \/ Read(1)
    \/ StreamEnd(1)
    \/ Grant(1)
    \/ ScenarioTick(DispatchStep, MaxTime)
    \/ LaterGetNextKey

ScenarioSpec == ScenarioInit /\ [][ScenarioNext]_vars

(***************************************************************************)
(* Concurrent dispatches: the callers of the request slots are in the      *)
(* Hydra loop at the same time, on one pool, while time passes.  A         *)
(* coroutine gives way to the others only where it yields a chunk or       *)
(* awaits, so each call of the key manager is one step.                    *)
(***************************************************************************)
\* the steps of an anonymous caller in slot r
Caller(r) ==
    \/ ChatEndpoint(r, Conversation(1, "user", "hello", 0, 0), "", "none")
    \/ Gate(r)
    \/ Select(r)
    \/ Open(r, <<Clever>>)
    \/ LimitedFail(r)
    \/ Read(r)
    \/ StreamEnd(r)

ConcInit ==
    /\ keys \in Pools({DispatchKeys})
    /\ budget = NumReqs
    /\ Start

ConcNext ==
    \/ \E r \in Reqs : Caller(r)
    \/ LoopTick(DispatchStep, MaxTime)

ConcSpec == ConcInit /\ [][ConcNext]_vars

(***************************************************************************)
(* Concurrent requests of one user: a first turn, which starts a session,  *)
(* and a turn of 10 messages, which saves a checkpoint, arrive together;   *)
(* the model's reply carries the token.                                    *)
(***************************************************************************)
\* the steps of the request of user u1 in slot r
UserRequest(r) ==
    \/ \E n \in {1, CheckpointEvery} :
          ChatEndpoint(r, Conversation(n, "user", "hello", 0, 0), "", "u1")
    \/ ProfileRead(r)
    \/ ProfileWrite(r)
    \/ Session(r)
    \/ CheckpointRead(r)
    \/ CheckpointWrite(r)
    \/ Gate(r)
    \/ Select(r)
    \/ Open(r, <<SECRET_ACCESS_TOKEN>>)
    \/ Read(r)
    \/ StreamEnd(r)
    \/ GrantRead(r)
    \/ GrantWrite(r)

RaceInit ==
    /\ keys \in Pools({StreamKeys})
    /\ budget = NumReqs
    /\ Start

RaceNext == \E r \in Reqs : UserRequest(r)

RaceSpec == RaceInit /\ [][RaceNext]_vars

(***************************************************************************)
(* The form: one turn of a user or of an unknown caller, answered by the   *)
(* model or by the crisis rule, and the submissions that come before and   *)
(* after it.                                                               *)
(***************************************************************************)
SubmitInit ==
    /\ keys \in Pools({StreamKeys})
    /\ budget = 1
    /\ Start

SubmitNext ==
    \/ Request(1, {Conversation(1, "user", "hello", 0, 0),
                   Conversation(1, "user", "CRISIS PROTOCOL", 0, 0)},
               {""}, {"none"} \cup Users, PlainStreams)
    \/ \E authorization \in SubmitAuths, email \in Emails,
          check \in DbOutcomes, save \in DbOutcomes :
          submit_secure(authorization, email, check, save)

SubmitSpec == SubmitInit /\ [][SubmitNext]_vars

(***************************************************************************)
(* Failover: concurrent dispatches on a pool of one key or more.  The      *)
(* except block of an attempt ends in "continue", and the loop head calls  *)
(* get_next_key with no yield and no await in between: the selection that  *)
(* follows a failure is made at once, before the clock or any other        *)
(* coroutine moves.                                                        *)
(***************************************************************************)
\* request r has reported a failure and is back at the head of the loop
Retrying(r) == rq[r].pc = "select" /\ rq[r].attempts > 0

FailoverInit ==
    /\ keys \in Pools(1..DispatchKeys)
    /\ budget = NumReqs
    /\ Start

\* the selection of a dispatch that has just reported a failure
Retry == \E r \in Reqs : Retrying(r) /\ Select(r)

FailoverNext ==
    \/ Retry
    \/ (\A r \in Reqs : ~Retrying(r)) /\ ConcNext

FailoverSpec == FailoverInit /\ [][FailoverNext]_vars

(***************************************************************************)
(* The caller that goes away: one dispatch of a user or of an unknown      *)
(* caller while time passes, which the caller may leave at any chunk it    *)
(* has been sent.                                                          *)
(***************************************************************************)
DisconnectInit ==
    /\ keys \in Pools(1..DispatchKeys)
    /\ budget = 1
    /\ Start

DisconnectNext ==
    \/ Request(1, {Conversation(1, "user", "hello", 0, 0)}, {""},
               {"none"} \cup Users, PlainStreams)
    \/ \E exc \in Closings : Disconnect(1, exc)
    \/ LoopTick(DispatchStep, DispatchTime)

DisconnectSpec == DisconnectInit /\ [][DisconnectNext]_vars

(***************************************************************************)
(* One dispatch under fair scheduling: the event loop runs generate() on   *)
(* to its next suspension, every call of the inference service returns a   *)
(* stream or raises, every stream yields its next chunk, ends or raises,   *)
(* and the awaited mark_access_granted returns.                            *)
(***************************************************************************)
\* a step of the Hydra loop of request r
LoopStep(r) ==
    \/ Select(r)
    \/ \E s \in PlainStreams : Open(r, s)
    \/ \E kind \in ErrorKinds : Fail(r, kind)
    \/ Read(r)
    \/ StreamEnd(r)
    \/ Grant(r)

LiveSpec == Init /\ [][Next]_vars /\ WF_vars(LoopStep(1))

(***************************************************************************)
(* Properties of the pool                                                  *)
(***************************************************************************)
\* the latest step was a get_next_key call that returned key k
Returned(k) == lastCall.op = "get_next_key" /\ lastCall.ret = k

\* every registered key is in the failure map fk
AllJailed(fk) == \A k \in Elems(keys) : InDict(fk, k)

\* the ban times recorded in fk
BanTimes(fk) == {fk[i][2] : i \in DOMAIN fk}

\* C1 (cooldown invariant): a get_next_key call made less than
\* cooldown_seconds after the latest report_failure(c) returns c only if
\* every other registered key is in the failure map and the report is at
\* least MinGraceSeconds old (forced resurrection).
C1_Cooldown ==
    \A c \in Elems(keys) :
        (/\ Returned(c)
         /\ lastReport[c] # NoTime
         /\ now < lastReport[c] + cooldown_seconds)
        => /\ \A k \in Elems(keys) \ {c} : InDict(failed_keys, k)
           /\ now - lastReport[c] >= MinGraceSeconds

\* C1's case: a key is handed out again inside its cooldown, while another
\* registered key sits in the failure map
C1_Witness ==
    \E c \in Elems(keys) :
        /\ Returned(c)
        /\ lastReport[c] # NoTime
        /\ now < lastReport[c] + cooldown_seconds
        /\ Len(keys) >= 2

Signals(r) ==
    Cardinality({i \in DOMAIN rq[r].out : rq[r].out[i] = GATE_OPEN_SIGNAL})

\* the reply of the attempt request r is in carries the token
Marked(r) == Contains(Concat(rq[r].stream), SECRET_ACCESS_TOKEN)

\* request r is over and its last attempt read its stream to the end
Completed(r) == rq[r].pc = "done" /\ rq[r].success

\* C3 as claimed (at-most-one-grant per stream): a dispatch whose reply, cut
\* in any way, carries the token ends with exactly one grant notification
\* and one gate-open signal.
C3_OneGrantEvent ==
    \A r \in Reqs :
        (Completed(r) /\ Marked(r))
        => (rq[r].grants = 1 /\ Signals(r) = 1)

\* C3 as amended: the caller is sent exactly one gate-open signal when the
\* completed reply, cut in any way, carries the token and none otherwise,
\* and mark_access_granted is called exactly once when the reply carries the
\* token and the caller is a known user, and not at all otherwise.
C3_OneGateSignal ==
    \A r \in Reqs :
        /\ Signals(r) = IF Completed(r) /\ Marked(r) THEN 1 ELSE 0
        /\ rq[r].grants = IF Completed(r) /\ Marked(r) /\ rq[r].user_uid # NoUser
                          THEN 1 ELSE 0

\* C3's case: a known user's reply carried the token, no chunk of it whole,
\* and the grant was made
C3_Witness ==
    \E r \in Reqs :
        /\ Completed(r)
        /\ Marked(r)
        /\ \A i \in DOMAIN rq[r].stream :
              ~Contains(rq[r].stream[i], SECRET_ACCESS_TOKEN)
        /\ rq[r].user_uid # NoUser
        /\ rq[r].grants = 1
        /\ Signals(r) = 1

\* C4 (marker secrecy): when a chunk read from the upstream stream holds the
\* whole token, nothing sent to the caller in that dispatch contains the
\* token.
C4_MarkerSecrecy ==
    \A r \in Reqs :
        (\E i \in 1..rq[r].pos : Contains(rq[r].stream[i], SECRET_ACCESS_TOKEN))
        => \A j \in DOMAIN rq[r].out :
              ~Contains(rq[r].out[j], SECRET_ACCESS_TOKEN)

\* C4's case: a chunk held the token after other text, the stream was read
\* to its end and the caller was sent something
C4_Witness ==
    \E r \in Reqs :
        /\ Completed(r)
        /\ \E i \in DOMAIN rq[r].stream :
              /\ Contains(rq[r].stream[i], SECRET_ACCESS_TOKEN)
              /\ rq[r].stream[i] # SECRET_ACCESS_TOKEN
        /\ Len(rq[r].out) >= 2

\* C5 (retry bound): one dispatch calls get_next_key at most max_attempts
\* times, whatever the pool and whatever the attempts do.
C5_RetryBound == \A r \in Reqs : rq[r].selections <= max_attempts

\* C5's case: a dispatch ended after max_attempts calls of get_next_key,
\* every one of which gave a key that then failed
C5_Witness ==
    \E r \in Reqs :
        /\ rq[r].pc = "done"
        /\ rq[r].selections = max_attempts
        /\ rq[r].reports = max_attempts

(***************************************************************************)
(* Properties of the gate                                                  *)
(***************************************************************************)
\* the messages are more than the history limit allows, or one of them is
\* longer than a message may be
OverLimit(messages, most) ==
    \/ Len(messages) > most
    \/ \E i \in DOMAIN messages : messages[i].content.len > MAX_CHAR_PER_MSG

\* the request in slot r was refused with a client error: nothing was sent,
\* no key was asked for, no grant was made
Rejected(r) ==
    /\ rq[r].pc = "done"
    /\ rq[r].status \in {400, 403}
    /\ rq[r].out = <<>>
    /\ rq[r].selections = 0
    /\ rq[r].grants = 0

\* the messages that tell the caller the gate is open
GrantMessages == {EMERGENCY_MSG, crisis_msg, persistence_msg}

\* C6 as claimed (one grant per session): between two start_session calls
\* for a user, mark_access_granted is called for that user at most once.
C6_OneGrantPerSession == \A u \in Users : notified[u] <= 1

\* C7 as claimed (validation comes first): a request over the size limits is
\* refused with a client error and is sent no grant message, whatever
\* EMERGENCY_MODE is.
C7_ValidationFirst ==
    \A r \in Reqs :
        (rq[r].pc # "idle" /\ OverLimit(rq[r].messages, MAX_HISTORY_LENGTH + 1))
        => /\ Rejected(r)
           /\ \A i \in DOMAIN rq[r].out : rq[r].out[i] \notin GrantMessages

\* C7 as amended: a request over the size limits that arrives with
\* EMERGENCY_MODE off is refused with a client error before the crisis and
\* persistence rules and before dispatch; one that arrives with
\* EMERGENCY_MODE on is answered with the emergency message, and no key is
\* asked for and no grant is made.
C7_ValidationAfterBypass ==
    \A r \in Reqs :
        (rq[r].pc # "idle" /\ OverLimit(rq[r].messages, MAX_HISTORY_LENGTH + 1))
        => IF rq[r].emergency
           THEN /\ rq[r].pc = "done"
                /\ rq[r].status = 200
                /\ rq[r].out = <<EMERGENCY_MSG>>
                /\ rq[r].selections = 0
                /\ rq[r].grants = 0
           ELSE Rejected(r)

\* C7's case: a known user's turn of PersistenceThreshold messages, the last
\* one a crisis phrase inside too long a message, from an allowed origin,
\* was refused with EMERGENCY_MODE off
C7_Witness ==
    \E r \in Reqs :
        /\ ~rq[r].emergency
        /\ Len(rq[r].messages) = PersistenceThreshold
        /\ IsCrisis(rq[r].messages)
        /\ rq[r].messages[Len(rq[r].messages)].content.len > MAX_CHAR_PER_MSG
        /\ rq[r].origin \in ALLOWED_ORIGINS
        /\ rq[r].authorization \in Users
        /\ Rejected(r)
        /\ rq[r].status = 400

\* C8 as claimed (payload limits): a request of more than MAX_HISTORY_LENGTH
\* messages, or with a message of more than MAX_CHAR_PER_MSG characters, is
\* refused with a client error and no key is asked for; a request within
\* both limits is not refused as too large.
C8_PayloadLimits ==
    \A r \in Reqs :
        rq[r].pc # "idle"
        => IF OverLimit(rq[r].messages, MAX_HISTORY_LENGTH)
           THEN Rejected(r)
           ELSE rq[r].status # 400

\* C8 as amended: a request of more than MAX_HISTORY_LENGTH + 1 messages, or
\* with a message of more than MAX_CHAR_PER_MSG characters, never reaches
\* get_next_key, and is refused with a client error when it arrives with
\* EMERGENCY_MODE off; a request within both limits is not refused as too
\* large.
C8_PayloadLimitsPlusOne ==
    \A r \in Reqs :
        rq[r].pc # "idle"
        => IF OverLimit(rq[r].messages, MAX_HISTORY_LENGTH + 1)
           THEN /\ rq[r].selections = 0
                /\ ~rq[r].emergency => Rejected(r)
           ELSE rq[r].status # 400

\* C8's case: a turn of MAX_HISTORY_LENGTH + 1 messages, one of them of
\* MAX_CHAR_PER_MSG characters, went through validation and was answered
C8_Witness ==
    \E r \in Reqs :
        /\ ~rq[r].emergency
        /\ Len(rq[r].messages) = MAX_HISTORY_LENGTH + 1
        /\ \E i \in DOMAIN rq[r].messages :
              rq[r].messages[i].content.len = MAX_CHAR_PER_MSG
        /\ rq[r].pc = "done"
        /\ rq[r].status = 200
        /\ rq[r].out # <<>>

\* request q went through validation: it found EMERGENCY_MODE off, came from
\* no origin or an allowed one, and is within the limits
Valid(q) ==
    /\ q.pc # "idle"
    /\ q.origin \in {""} \cup ALLOWED_ORIGINS
    /\ ~OverLimit(q.messages, MAX_HISTORY_LENGTH + 1)

\* C9 as claimed (persistence threshold): every valid turn of
\* PersistenceThreshold messages or more is answered with the persistence
\* message, and get_next_key and report_failure are not called for it.
C9_PersistenceAlways ==
    \A r \in Reqs :
        (Valid(rq[r]) /\ Len(rq[r].messages) >= PersistenceThreshold)
        => /\ rq[r].selections = 0
           /\ rq[r].reports = 0
           /\ rq[r].pc = "done" => rq[r].out = <<persistence_msg>>

\* C9 as amended: every valid turn of PersistenceThreshold messages or more
\* that arrives with EMERGENCY_MODE off is answered with the persistence
\* message, or with the crisis message when its last user message holds a
\* crisis phrase; get_next_key and report_failure are not called for it, and
\* its steps leave the pool and the failure map as they were.
C9_PersistenceNoDispatch ==
    [][\A r \in Reqs :
          (/\ Valid(rq'[r])
           /\ ~rq'[r].emergency
           /\ Len(rq'[r].messages) >= PersistenceThreshold)
          => /\ rq'[r].selections = 0
             /\ rq'[r].reports = 0
             /\ rq'[r].pc = "done"
                => rq'[r].out = IF IsCrisis(rq'[r].messages)
                                THEN <<crisis_msg>> ELSE <<persistence_msg>>
             /\ rq'[r] # rq[r]
                => /\ lastCall'.op = "none"
                   /\ UNCHANGED <<keys, failed_keys>>]_vars

\* C9's case: a known user's turn of exactly PersistenceThreshold messages
\* was answered with the persistence message and the user marked, while
\* the failure map held a key
C9_Witness ==
    \E r \in Reqs :
        /\ Valid(rq[r])
        /\ ~rq[r].emergency
        /\ Len(rq[r].messages) = PersistenceThreshold
        /\ rq[r].pc = "done"
        /\ rq[r].out = <<persistence_msg>>
        /\ rq[r].grants = 1
        /\ failed_keys # <<>>

\* C10 (kill switch): a /chat turn that arrives while EMERGENCY_MODE is set
\* is answered with the emergency message at once, and leaves the pool, the
\* failure map and the users' documents as they were: no get_next_key, no
\* report_failure, no call of the inference service, no call of the
\* database.
C10_KillSwitch ==
    [][\A r \in Reqs :
          (rq'[r].pc # "idle" /\ rq'[r].emergency)
          => /\ rq'[r].pc = "done"
             /\ rq'[r].status = 200
             /\ rq'[r].out = <<EMERGENCY_MSG>>
             /\ rq'[r].selections = 0
             /\ rq'[r].reports = 0
             /\ rq'[r].grants = 0
             /\ rq'[r].stream = <<>>
             /\ rq'[r] # rq[r]
                => /\ lastCall'.op = "none"
                   /\ UNCHANGED <<keys, failed_keys, issued, db, nextSid,
                                  notified>>]_vars

\* C10's case: with EMERGENCY_MODE set, a known user with a stored profile
\* sent a crisis phrase and was answered with the emergency message
C10_Witness ==
    \E r \in Reqs :
        /\ rq[r].emergency
        /\ rq[r].pc = "done"
        /\ rq[r].out = <<EMERGENCY_MSG>>
        /\ rq[r].authorization \in Users
        /\ IsCrisis(rq[r].messages)
        /\ db[rq[r].authorization].exists
        /\ ~db[rq[r].authorization].access_granted

(***************************************************************************)
(* Scenarios                                                               *)
(***************************************************************************)
\* what the caller of request r has been sent, as one text
Observed(r) == Concat(rq[r].out)

\* C11 (Scenario D): when the reply to a conversation of 5 messages is
\* "Clever. " followed by the token, cut into chunks in any way, the caller
\* is sent "Clever. " followed by the gate-open signal, and the text it is
\* sent does not contain the token.
C11_ScenarioD ==
    \A r \in Reqs :
        (/\ Completed(r)
         /\ Len(rq[r].messages) = 5
         /\ Concat(rq[r].stream) = Clever \o SECRET_ACCESS_TOKEN)
        => /\ Observed(r) = Clever \o GATE_OPEN_SIGNAL
           /\ ~Contains(Observed(r), SECRET_ACCESS_TOKEN)

\* C13 (Scenario B): in a pool of one key that has been reported failed, a
\* get_next_key call made less than MinGraceSeconds after the latest report
\* returns None, and a call made MinGraceSeconds or more after it returns
\* that key.
C13_ScenarioB ==
    (/\ Len(keys) = 1
     /\ lastCall.op = "get_next_key"
     /\ lastReport[keys[1]] # NoTime)
    => lastCall.ret = IF now - lastReport[keys[1]] < MinGraceSeconds
                      THEN None ELSE keys[1]

\* C13's case: the only key failed, and the call made exactly
\* MinGraceSeconds later returned it, taking it out of the failure map
C13_Witness ==
    /\ Len(keys) = 1
    /\ Returned(keys[1])
    /\ lastReport[keys[1]] # NoTime
    /\ now - lastReport[keys[1]] = MinGraceSeconds
    /\ failed_keys = <<>>

\* C17 (pool membership is constant): no step changes the list of
\* registered keys; a key get_next_key returns is a registered key; the
\* candidates of a selection are the registered keys that are not in the
\* failure map; and a key that is still in the failure map after the parole
\* board is returned only when every registered key is (forced
\* resurrection).
C17_PoolMembership ==
    [][/\ keys' = keys
       /\ Elems(available_keys(keys, failed_keys))
             = Elems(keys) \ {failed_keys[i][1] : i \in DOMAIN failed_keys}
       /\ (lastCall'.op = "get_next_key" /\ lastCall'.ret # None)
          => /\ lastCall'.ret \in Elems(keys)
             /\ \/ \A i \in DOMAIN failed_keys :
                      failed_keys[i][1] = lastCall'.ret
                      => now - failed_keys[i][2] > cooldown_seconds
                \/ \A k \in Elems(keys) : \E i \in DOMAIN failed_keys :
                      /\ failed_keys[i][1] = k
                      /\ now - failed_keys[i][2] <= cooldown_seconds
       /\ lastCall'.op = "report_failure"
          => {failed_keys'[i][1] : i \in DOMAIN failed_keys'}
                = {failed_keys[i][1] : i \in DOMAIN failed_keys}
                     \cup {lastCall'.key}]_vars

\* C17's case: of three registered keys one is in the failure map, and a
\* selection has just returned another
C17_Witness ==
    /\ Len(keys) = 3
    /\ Len(failed_keys) = 1
    /\ \E c \in Elems(keys) : Returned(c) /\ ~InDict(failed_keys, c)

\* the number of fallback replies the caller of request r has been sent
Fallbacks(r) ==
    Cardinality({i \in DOMAIN rq[r].out : rq[r].out[i] = FALLBACK_MSG})

ForwardedChunks(r) ==
    SelectSeq(rq[r].stream,
              LAMBDA c : c # <<>> /\ ~Contains(c, SECRET_ACCESS_TOKEN))

C15_StoreStep(r) ==
    LET q == rq[r]
        n == rq'[r]
    IN  /\ q.pc = "profile" =>
             /\ n.pc = IF Len(q.messages) <= 1 THEN "session" ELSE "checkpoint"
             /\ n.out = q.out /\ n.status = q.status
        /\ q.pc = "session" =>
             n.pc = "checkpoint" /\ n.out = q.out /\ n.status = q.status
        /\ q.pc = "checkpoint" =>
             n.pc = "gate" /\ n.out = q.out /\ n.status = q.status
        /\ (q.pc = "gate" /\ IsCrisis(q.messages)) =>
             n.pc = "done" /\ n.out = <<crisis_msg>> /\ n.status = 200
        /\ (q.pc = "gate" /\ ~IsCrisis(q.messages)
                          /\ Len(q.messages) >= PersistenceThreshold) =>
             n.pc = "done" /\ n.out = <<persistence_msg>> /\ n.status = 200
        /\ q.pc = "grant" =>
             /\ n.pc = "done" /\ n.status = q.status
             /\ n.out = Append(q.out, GATE_OPEN_SIGNAL)

C15_FailuresSwallowed ==
    [][\A r \in Reqs : rq'[r] # rq[r] => C15_StoreStep(r)]_vars

\* a signed-in caller's first turn is answered with the gate-open signal
\* although no call to the profile store stored anything and the session
\* start raised
C15_Witness ==
    \E r \in Reqs :
        /\ rq[r].pc = "done" /\ rq[r].user_uid # NoUser
        /\ Len(rq[r].messages) = 1 /\ rq[r].session_id = NoSession
        /\ rq[r].grants = 1 /\ Signals(r) = 1
        /\ db[rq[r].user_uid] = NoDoc

\* ---------------------------------------------------------------------------
\* C18  Sliding window.  On the normal path the conversation sent upstream is
\* the system prompt followed by the last min(n, 10) of the n messages of
\* the request, in their order and unmodified.
C18_SlidingWindow ==
    \A r \in Reqs :
        rq[r].upstream # <<>> =>
            LET n == Len(rq[r].messages)
                k == IF n < 10 THEN n ELSE 10
            IN  /\ Len(rq[r].upstream) = k + 1
                /\ rq[r].upstream[1] = system_message
                /\ \A i \in 1..k :
                      rq[r].upstream[i + 1] = rq[r].messages[n - k + i]

\* a turn of more than 10 messages was answered by the model from a
\* conversation of the system prompt and 10 messages
C18_Witness ==
    \E r \in Reqs :
        /\ rq[r].pc = "done" /\ rq[r].attempts > 0
        /\ Len(rq[r].messages) = 11
        /\ Len(rq[r].upstream) = 11

\* ---------------------------------------------------------------------------
\* the keys reported failed so far
FailedSoFar == {k \in DOMAIN lastReport : lastReport[k] # NoTime}

\* the step that ends the dispatch of request r with a reply read to its
\* end, after exactly two failed attempts, on a pool of at least 3 keys
EndsOnThird(r) ==
    /\ Len(keys) >= 3
    /\ rq[r].pc \in {"stream", "grant"} /\ rq'[r].pc = "done"
    /\ rq[r].attempts = 2

\* the three attempts used three distinct keys, the caller was sent no
\* fallback reply, and the failure map holds exactly the first two keys
ThreeDistinct(r) ==
    /\ Cardinality(FailedSoFar) = 2
    /\ rq[r].api_key \notin FailedSoFar
    /\ Fallbacks(r)' = 0
    /\ DictKeys(failed_keys') = FailedSoFar

\* a get_next_key step of a later caller, the dispatch of request r having
\* ended on its third attempt
LaterSelection(r) ==
    /\ Len(keys) >= 3
    /\ rq[r].pc = "done" /\ rq[r].attempts = 2 /\ rq[r].success
    /\ lastCall'.op = "get_next_key"

InLoop(r) == rq[r].pc \in {"select", "open", "stream"}

\* the entry of key k leaves the failure map in this step
Released(k) == InDict(failed_keys, k) /\ ~InDict(failed_keys', k)

\* C19 (pool atomicity under concurrent sessions): whatever the interleaving
\* of the dispatches, a key reported failed is in the failure map with the
\* time of the report, the entries of the other keys untouched; an entry
\* stays as it is until a get_next_key call paroles it (more than
\* cooldown_seconds served) or force-resurrects it (the call returns its
\* key, jailed for at least MinGraceSeconds); and a key that get_next_key
\* returns has no entry left, so no entry is resurrected twice.
C19_PoolAtomicity ==
    [][/\ \A k \in Elems(keys) :
            /\ Released(k) =>
                 /\ lastCall'.op = "get_next_key"
                 /\ \/ now - Lookup(failed_keys, k) > 60
                    \/ /\ lastCall'.ret = k
                       /\ now - Lookup(failed_keys, k) >= 10
            /\ (InDict(failed_keys, k) /\ InDict(failed_keys', k)) =>
                 \/ Lookup(failed_keys', k) = Lookup(failed_keys, k)
                 \/ lastCall' = ReportCall(k) /\ Lookup(failed_keys', k) = now
            /\ (~InDict(failed_keys, k) /\ InDict(failed_keys', k)) =>
                 lastCall' = ReportCall(k) /\ Lookup(failed_keys', k) = now
            /\ lastCall' = ReportCall(k) => InDict(failed_keys', k)
       /\ lastCall'.op = "get_next_key" =>
            ~InDict(failed_keys', lastCall'.ret)]_vars

\* two dispatches are in the loop, each has reported a failure, and the
\* latest step force-resurrected a key: it was reported 10 to 60 s ago, it
\* was returned, and its entry is gone while the other key's entry is kept
C19_Witness ==
    /\ \A r \in Reqs : InLoop(r) /\ rq[r].reports >= 1
    /\ lastCall.op = "get_next_key" /\ lastCall.ret # None
    /\ lastReport[lastCall.ret] # NoTime
    /\ now - lastReport[lastCall.ret] >= 10
    /\ now - lastReport[lastCall.ret] <= 60
    /\ \E k \in Elems(keys) : InDict(failed_keys, k)

\* ---------------------------------------------------------------------------
\* the ids of the sessions of user u stored with outcome granted
GrantedSessions(doc) ==
    IF doc.exists
    THEN {doc.sessions[i].session_id :
            i \in {j \in DOMAIN doc.sessions :
                     doc.sessions[j].outcome = "granted"}}
    ELSE {}

\* C20 (granted is terminal): a session stored with outcome granted is
\* stored with outcome granted ever after, whatever the interleaving of
\* the save_chat_checkpoint, start_session and mark_access_granted calls of
\* concurrent requests of the same user.
C20_GrantedTerminal ==
    [][\A u \in Users : GrantedSessions(db[u]) \subseteq GrantedSessions(db'[u])]_vars

\* ---------------------------------------------------------------------------
\* C21 (submission requires a passed gate): a submission is stored only in
\* the profile of a user who has access_granted set.
C21_SubmissionNeedsGate ==
    \A u \in Users :
        (db[u].exists /\ db[u].form_submitted) => db[u].access_granted

\* ---------------------------------------------------------------------------
\* C22 (kill-switch control is authenticated): a toggle request with a
\* secret other than the admin secret is answered 403 and leaves
\* EMERGENCY_MODE as it was; one with the admin secret is answered 200 and
\* sets EMERGENCY_MODE to the value it asks for.
C22_AuthenticatedToggle ==
    [][lastCall'.op = "toggle_emergency" =>
          IF lastCall'.secret = "bits-gigachad-admin-2024"
          THEN lastCall'.status = 200 /\ EMERGENCY_MODE' = lastCall'.enable
          ELSE lastCall'.status = 403 /\ EMERGENCY_MODE' = EMERGENCY_MODE]_vars

\* the kill switch is on, and the latest request, to turn it off with a
\* wrong secret, was rejected
C22_Witness ==
    /\ lastCall.op = "toggle_emergency"
    /\ lastCall.secret # "bits-gigachad-admin-2024"
    /\ lastCall.enable = FALSE /\ lastCall.status = 403
    /\ EMERGENCY_MODE

\* ---------------------------------------------------------------------------
\* request r is between the head of the Hydra loop and the end of its reply
Dispatching(r) == rq[r].pc \in {"select", "open", "stream", "grant"}

\* C23 (uniform failure recording): a step that ends an attempt in failure,
\* at the opening of the stream or in the middle of it and whatever the
\* kind of the error, counts one more attempt and calls report_failure once,
\* for the key of that attempt, which is then in the failure map with the
\* time of the call; report_failure is called in no other step of the
\* dispatch, and not when a stream is read to its end.
C23_UniformRecording ==
    [][\A r \in Reqs :
          Dispatching(r) =>
            /\ rq'[r].attempts # rq[r].attempts =>
                 /\ rq[r].pc \in {"open", "stream"}
                 /\ rq'[r].attempts = rq[r].attempts + 1
                 /\ rq'[r].reports = rq[r].reports + 1
                 /\ lastCall' = [op |-> "report_failure", key |-> rq[r].api_key]
                 /\ InDict(failed_keys', rq[r].api_key)
                 /\ Lookup(failed_keys', rq[r].api_key) = now
            /\ rq'[r].reports # rq[r].reports =>
                 rq'[r].attempts = rq[r].attempts + 1
            /\ (rq[r].pc \in {"stream", "grant"}
                  /\ rq'[r].pc \in {"grant", "done"}
                  /\ rq'[r].pc # rq[r].pc) =>
                 /\ rq'[r].reports = rq[r].reports
                 /\ rq'[r].attempts = rq[r].attempts
                 /\ lastCall'.op # "report_failure"
                 /\ failed_keys' = failed_keys]_vars

\* the second attempt of a dispatch has just failed in the middle of its
\* stream, a chunk having been read, and its key has been reported
C23_Witness ==
    \E r \in Reqs :
        /\ rq[r].pc = "select" /\ rq[r].pos = 1
        /\ rq[r].attempts = 2 /\ rq[r].reports = 2
        /\ lastCall = [op |-> "report_failure", key |-> rq[r].api_key]

\* ---------------------------------------------------------------------------
\* C24 (failover changes credential): the selection that follows a failed
\* attempt of a dispatch does not return the key that has just failed, and
\* returns None when the pool has that key only, whatever the other
\* dispatches have selected and reported.
C24_FailoverChangesKey ==
    [][\A r \in Reqs :
          (/\ rq[r].pc = "select" /\ rq[r].attempts > 0
           /\ rq'[r].selections = rq[r].selections + 1)
          => /\ rq'[r].api_key # rq[r].api_key
             /\ Len(keys) = 1 => rq'[r].api_key = None]_vars

\* a dispatch whose attempt failed has been given another key, while the
\* other dispatch, which has reported a failure too, is in the loop
C24_Witness ==
    \E r \in Reqs, q \in Reqs :
        /\ r # q
        /\ rq[r].pc = "open" /\ rq[r].attempts >= 1
        /\ lastCall.op = "get_next_key" /\ lastCall.ret = rq[r].api_key
        /\ lastReport[rq[r].api_key] = NoTime
        /\ rq[q].pc \in {"open", "stream"} /\ rq[q].reports >= 1

\* ---------------------------------------------------------------------------
\* every registered key is in the failure map, none of them for more than
\* 60 s: the parole pass frees nothing and no key is available
NoCandidate ==
    /\ Len(keys) > 0
    /\ \A k \in Elems(keys) :
          InDict(failed_keys, k) /\ now - Lookup(failed_keys, k) <= 60

\* C25 (forced resurrection picks the oldest): a get_next_key call that
\* finds no candidate, the oldest failure being at least 10 s old, returns a
\* key whose failure time is the least of the whole failure map, removes
\* the entry of that key and leaves every other entry as it was.
C25_ResurrectsOldest ==
    [][(/\ lastCall'.op = "get_next_key"
        /\ NoCandidate
        /\ \E k \in Elems(keys) : now - Lookup(failed_keys, k) >= 10)
       => LET k == lastCall'.ret
          IN /\ k \in Elems(keys)
             /\ \A j \in Elems(keys) :
                   Lookup(failed_keys, k) <= Lookup(failed_keys, j)
             /\ ~InDict(failed_keys', k)
             /\ Len(failed_keys') = Len(failed_keys) - 1
             /\ \A j \in Elems(keys) \ {k} :
                   /\ InDict(failed_keys', j)
                   /\ Lookup(failed_keys', j) = Lookup(failed_keys, j)]_vars

\* of at least two keys, all in the failure map, the latest get_next_key
\* call has returned the one that failed first, 10 s ago or more, and the
\* later failures are still in the map
C25_Witness ==
    /\ Len(keys) >= 2
    /\ lastCall.op = "get_next_key" /\ lastCall.ret # None
    /\ ~InDict(failed_keys, lastCall.ret)
    /\ lastReport[lastCall.ret] # NoTime
    /\ now - lastReport[lastCall.ret] >= 10
    /\ now - lastReport[lastCall.ret] <= 60
    /\ \A j \in Elems(keys) \ {lastCall.ret} :
          /\ InDict(failed_keys, j)
          /\ Lookup(failed_keys, j) > lastReport[lastCall.ret]

\* ---------------------------------------------------------------------------
\* C26 (parole pass): a get_next_key call on a pool with keys leaves no
\* entry older than 60 s in the failure map; an entry 60 s old or younger
\* leaves the map only in a get_next_key call that finds no candidate and
\* returns the key of that entry, 10 s old or older (forced resurrection).
C26_ParolePass ==
    [][/\ (lastCall'.op = "get_next_key" /\ Len(keys) > 0) =>
            \A i \in DOMAIN failed_keys' : now - failed_keys'[i][2] <= 60
       /\ \A k \in Elems(keys) :
            (/\ InDict(failed_keys, k)
             /\ now - Lookup(failed_keys, k) <= 60
             /\ ~InDict(failed_keys', k))
            => /\ lastCall'.op = "get_next_key"
               /\ lastCall'.ret = k
               /\ now - Lookup(failed_keys, k) >= 10
               /\ \A j \in Elems(keys) :
                     InDict(failed_keys, j)
                     /\ now - Lookup(failed_keys, j) <= 60]_vars

\* the latest get_next_key call has paroled a key, which failed more than
\* 60 s ago and is not in the map, and has kept a younger entry
C26_Witness ==
    /\ lastCall.op = "get_next_key"
    /\ \E k \in Elems(keys) :
          /\ lastReport[k] # NoTime /\ now - lastReport[k] > 60
          /\ ~InDict(failed_keys, k)
    /\ \E j \in Elems(keys) :
          /\ InDict(failed_keys, j)
          /\ now - Lookup(failed_keys, j) <= 60
          /\ now - Lookup(failed_keys, j) > 10

\* ---------------------------------------------------------------------------
\* the candidate set of a get_next_key call made now: the registered keys
\* that are outside the failure map once the entries older than 60 s are
\* removed
Candidates ==
    {k \in Elems(keys) :
        ~InDict(failed_keys, k) \/ now - Lookup(failed_keys, k) > 60}

\* C27 (healthy credentials are preferred): when the candidate set is not
\* empty, every member of it is a possible result of get_next_key, and a
\* get_next_key call returns a member of it, not None and not a key still
\* in the failure map, and removes no entry that is 60 s old or younger
\* (no forced resurrection).
C27_HealthyPreferred ==
    [][Candidates # {} =>
          /\ \A k \in Candidates :
                \E o \in get_next_key(keys, failed_keys, now) : o.ret = k
          /\ lastCall'.op = "get_next_key" =>
                /\ lastCall'.ret \in Candidates
                /\ ~InDict(failed_keys', lastCall'.ret)
                /\ \A j \in Elems(keys) :
                      (InDict(failed_keys, j)
                         /\ now - Lookup(failed_keys, j) <= 60)
                      => /\ InDict(failed_keys', j)
                         /\ Lookup(failed_keys', j) = Lookup(failed_keys, j)]_vars

\* with one key in the failure map, 10 s or more, and two outside, the
\* latest get_next_key call has returned the second of the two
C27_Witness ==
    /\ Len(keys) = 3
    /\ lastCall.op = "get_next_key" /\ lastCall.ret = keys[2]
    /\ lastReport[keys[1]] = NoTime /\ lastReport[keys[2]] = NoTime
    /\ InDict(failed_keys, keys[3])
    /\ now - Lookup(failed_keys, keys[3]) >= 10

\* ---------------------------------------------------------------------------
\* the step is a report_failure call for key k
ReportStep(k) == lastCall' = ReportCall(k) /\ now' = now

\* C28 (the effect of report_failure): report_failure(c) at time t leaves
\* the failure map with exactly one entry for c, mapped to t, whether or
\* not c was in the map before, and changes no other key's entry and not
\* the registered keys.
C28_ReportFrame ==
    [][\A k \in issued : ReportStep(k) =>
          /\ InDict(failed_keys', k) /\ Lookup(failed_keys', k) = now
          /\ Cardinality({i \in DOMAIN failed_keys' : failed_keys'[i][1] = k}) = 1
          /\ \A j \in Elems(keys) \ {k} :
                /\ InDict(failed_keys', j) <=> InDict(failed_keys, j)
                /\ InDict(failed_keys, j) =>
                      Lookup(failed_keys', j) = Lookup(failed_keys, j)
          /\ \A i \in DOMAIN failed_keys' : failed_keys'[i][1] \in Elems(keys)
          /\ keys' = keys]_vars

\* the latest call reported a key that was already in the failure map: its
\* entry, still the first of the map, is newer than the entry after it
C28_Witness ==
    /\ lastCall.op = "report_failure"
    /\ Len(failed_keys) >= 2
    /\ failed_keys[1][1] = lastCall.key
    /\ failed_keys[1][2] = now
    /\ failed_keys[2][2] < now

\* ---------------------------------------------------------------------------
\* the chunks request r has read so far in its first attempt
ReadSoFar(r) == SubSeq(rq[r].stream, 1, rq[r].pos)

\* request r is reading the stream of its first attempt
FirstStream(r) == rq[r].pc = "stream" /\ rq[r].attempts = 0

C30_GateOpenLast ==
    \A r \in Reqs :
        Signals(r) >= 1
        => /\ rq[r].pos = Len(rq[r].stream)
           /\ rq[r].full_response = Concat(rq[r].stream)
           /\ Completed(r)
           /\ Signals(r) = 1
           /\ rq[r].out[Len(rq[r].out)] = GATE_OPEN_SIGNAL
           /\ Len(rq[r].out) > Len(ForwardedChunks(r))
           /\ SubSeq(rq[r].out,
                     Len(rq[r].out) - Len(ForwardedChunks(r)),
                     Len(rq[r].out) - 1) = ForwardedChunks(r)
           /\ GATE_OPEN_SIGNAL # SECRET_ACCESS_TOKEN
           /\ ~Contains(GATE_OPEN_SIGNAL, SECRET_ACCESS_TOKEN)

\* C30's case: the token came before other text, that text was sent on and
\* the signal after it
C30_Witness ==
    \E r \in Reqs :
        /\ Completed(r)
        /\ rq[r].stream = <<SECRET_ACCESS_TOKEN, Clever>>
        /\ rq[r].out = <<Clever, GATE_OPEN_SIGNAL>>

\* ---------------------------------------------------------------------------
\* what request r sends the caller in this step
Sent(r) == SubSeq(rq'[r].out, Len(rq[r].out) + 1, Len(rq'[r].out))

\* a step of the dispatch of request r sends nothing again and takes
\* nothing back
C31_Step(r) ==
    LET q == rq[r]
        p == rq'[r]
    IN (Dispatching(r) /\ p # q) =>
         \* what has been sent stays sent
         /\ Len(p.out) >= Len(q.out)
         /\ SubSeq(p.out, 1, Len(q.out)) = q.out
         \* an attempt fails: one more attempt, nothing sent, nothing taken back
         /\ (q.pc \in {"open", "stream"} /\ p.pc = "select")
            => p.attempts = q.attempts + 1 /\ Sent(r) = <<>>
         \* an attempt starts: at the first chunk of its own stream
         /\ (q.pc = "open" /\ p.pc = "stream")
            => p.attempts = q.attempts /\ p.pos = 0 /\ Sent(r) = <<>>
         \* a chunk is read: it is the next one, sent on or withheld
         /\ (q.pc = "stream" /\ p.pc = "stream")
            => /\ p.attempts = q.attempts /\ p.pos = q.pos + 1
               /\ p.stream = q.stream
               /\ Sent(r) = IF q.stream[p.pos] # <<>>
                               /\ ~Contains(q.stream[p.pos], SECRET_ACCESS_TOKEN)
                            THEN <<q.stream[p.pos]>> ELSE <<>>
         \* the stream ends: the signal at most
         /\ (q.pc \in {"stream", "grant"} /\ p.pc \in {"grant", "done"})
            => /\ p.attempts = q.attempts
               /\ Sent(r) \in {<<>>, <<GATE_OPEN_SIGNAL>>}
         \* the loop is left without a success: the fallback reply
         /\ (q.pc = "select" /\ p.pc = "done")
            => p.attempts = q.attempts /\ Sent(r) = <<FALLBACK_MSG>>
         /\ (q.pc = "select" /\ p.pc = "open")
            => p.attempts = q.attempts /\ Sent(r) = <<>>

\* C31 (no replay, no rollback): when an attempt fails after some of its
\* chunks were sent on, they stay sent and are not sent again: every step
\* of a dispatch only adds to what the caller has been sent, a failure adds
\* nothing and counts exactly one more attempt, the next attempt sends the
\* chunks of its own stream from the first on, each once, and the dispatch
\* ends with the rest of the successful attempt or with the fallback reply.
C31_NoReplayNoRollback == [][\A r \in Reqs : C31_Step(r)]_vars

\* C31's case: the first attempt failed after its chunk was sent on, and
\* the second attempt's chunk followed it, or the fallback reply did
C31_Witness ==
    \E r \in Reqs :
        /\ rq[r].pc = "done"
        /\ rq[r].attempts = 1
        /\ rq[r].reports = 1
        /\ rq[r].out = <<Clever, Clever>>

\* ---------------------------------------------------------------------------
\* C32 (a failed dispatch grants nothing): a dispatch that has ended with
\* the fallback reply has not called mark_access_granted and has not sent
\* the gate-open signal, and the profile of its user is stored with no
\* access and no granted session, also when an attempt that failed had read
\* the token before its error.
C32_FailedGrantsNothing ==
    \A r \in Reqs :
        Fallbacks(r) >= 1
        => /\ rq[r].grants = 0
           /\ Signals(r) = 0
           /\ \A i \in DOMAIN rq[r].out :
                 ~Contains(rq[r].out[i], GATE_OPEN_TAG)
           /\ rq[r].user_uid # NoUser
              => /\ notified[rq[r].user_uid] = 0
                 /\ db[rq[r].user_uid].exists
                    => /\ ~db[rq[r].user_uid].access_granted
                       /\ db[rq[r].user_uid].status = "in_progress"
                       /\ GrantedSessions(db[rq[r].user_uid]) = {}

\* C32's case: the last attempt read the token and then failed, the
\* session is stored, and the dispatch ended with the fallback reply
C32_Witness ==
    \E r \in Reqs :
        /\ Fallbacks(r) = 1
        /\ rq[r].attempts >= 1
        /\ rq[r].stream = <<SECRET_ACCESS_TOKEN>>
        /\ rq[r].pos = 1
        /\ rq[r].user_uid # NoUser
        /\ db[rq[r].user_uid].exists
        /\ Len(db[rq[r].user_uid].sessions) = 1

\* ---------------------------------------------------------------------------
\* the session of user u started last, the one a turn of u belongs to
CurrentSession(doc) == doc.sessions[Len(doc.sessions)]

\* C33 (the grant reaches the session): when a turn of a user with a stored
\* session has the grant stored (access_granted becomes true), that user's
\* current session is stored with outcome granted.
C33_GrantReachesSession ==
    [][\A u \in Users :
          (/\ db[u].exists /\ db'[u].exists
           /\ ~db[u].access_granted /\ db'[u].access_granted
           /\ db[u].sessions # <<>>)
          => CurrentSession(db'[u]).outcome = "granted"]_vars

\* ---------------------------------------------------------------------------
\* C34 as claimed (crisis phrase): every valid turn whose last message is a
\* user message with a crisis phrase never calls get_next_key and, once
\* answered, is answered with the crisis message, which carries the
\* gate-open tag, with the grant notified to the profile store.
C34_CrisisAlways ==
    \A r \in Reqs :
        (Valid(rq[r]) /\ IsCrisis(rq[r].messages))
        => /\ rq[r].selections = 0
           /\ rq[r].pc = "done"
              => /\ rq[r].out = <<crisis_msg>>
                 /\ Contains(crisis_msg, GATE_OPEN_TAG)
                 /\ rq[r].grants = 1

\* C34 as amended: every valid turn that arrives with EMERGENCY_MODE off
\* and whose last message is a user message with a crisis phrase, in any
\* letter case, never enters the Hydra loop (no get_next_key, no
\* report_failure) and, once answered, is answered with the crisis message,
\* which carries the gate-open tag, whether or not the turn has
\* PersistenceThreshold messages; mark_access_granted is called once when
\* the caller is a known user and not at all otherwise.
C34_CrisisPhrase ==
    \A r \in Reqs :
        (Valid(rq[r]) /\ ~rq[r].emergency /\ IsCrisis(rq[r].messages))
        => /\ rq[r].selections = 0
           /\ rq[r].reports = 0
           /\ ~Dispatching(r)
           /\ rq[r].pc = "done"
              => /\ rq[r].out = <<crisis_msg>>
                 /\ Contains(crisis_msg, GATE_OPEN_TAG)
                 /\ rq[r].grants = IF rq[r].user_uid = NoUser THEN 0 ELSE 1

\* C34's case: a known user's turn of PersistenceThreshold messages ending
\* in "CRISIS PROTOCOL" was answered with the crisis message and the grant
\* stored
C34_Witness ==
    \E r \in Reqs :
        /\ Valid(rq[r])
        /\ ~rq[r].emergency
        /\ Len(rq[r].messages) = PersistenceThreshold
        /\ rq[r].messages[Len(rq[r].messages)].content.text = "CRISIS PROTOCOL"
        /\ rq[r].pc = "done"
        /\ rq[r].out = <<crisis_msg>>
        /\ rq[r].user_uid # NoUser
        /\ rq[r].grants = 1
        /\ db[rq[r].user_uid].exists
        /\ db[rq[r].user_uid].access_granted

\* ---------------------------------------------------------------------------
\* C35 (a client disconnect is not a credential failure): when the caller
\* goes away while the stream of an attempt is being sent, the attempt is
\* left as it is: report_failure is not called, the failure map and the
\* pool are unchanged, no attempt is counted, nothing more is sent, and the
\* request takes no further step (no get_next_key, no other attempt).
C35_DisconnectNoFailure ==
    [][\A r \in Reqs :
          /\ (~rq[r].disconnected /\ rq'[r].disconnected)
             => /\ rq[r].pc = "stream"
                /\ failed_keys' = failed_keys
                /\ keys' = keys
                /\ lastReport' = lastReport
                /\ lastCall'.op \notin {"report_failure", "get_next_key"}
                /\ rq'[r] = [rq[r] EXCEPT !.pc = "closed",
                                          !.disconnected = TRUE]
          /\ rq[r].disconnected => rq'[r] = rq[r]]_vars

\* C35's case: the first attempt failed and its key is in the failure map;
\* the caller left the second attempt after its chunk, and time has passed
\* since
C35_Witness ==
    \E r \in Reqs :
        /\ rq[r].disconnected
        /\ rq[r].pc = "closed"
        /\ rq[r].attempts = 1
        /\ rq[r].reports = 1
        /\ rq[r].selections = 2
        /\ rq[r].out = <<Clever>>
        /\ Len(failed_keys) = 1
        /\ now > lastReport[failed_keys[1][1]]

\* ---------------------------------------------------------------------------
\* the dispatch of request r is over and has ended as a dispatch may: after
\* a stream read to its end, with what was sent on of it and the gate-open
\* signal when the reply held the token, or after a None from get_next_key
\* or max_attempts failed attempts, with the fallback reply
EndedWell(r) ==
    LET q == rq[r]
        n == Len(q.out)
    IN (q.pc = "done" /\ q.upstream # <<>>) =>
         IF q.success
         THEN /\ q.pos = Len(q.stream)
              /\ q.attempts < max_attempts
              /\ IF Marked(r)
                 THEN n > 0 /\ q.out[n] = GATE_OPEN_SIGNAL
                 ELSE /\ n >= Len(ForwardedChunks(r))
                      /\ SubSeq(q.out, n - Len(ForwardedChunks(r)) + 1, n)
                            = ForwardedChunks(r)
         ELSE /\ IF q.attempts = max_attempts
                 THEN q.selections = max_attempts
                 ELSE q.api_key = None /\ q.selections = q.attempts + 1
              /\ n > 0 /\ q.out[n] = FALLBACK_MSG

\* C36 (the dispatch terminates): when every call of the inference service
\* returns or raises and every stream goes on to its end or raises, every
\* dispatch ends, after a stream read to its end, a None from get_next_key
\* or the max_attempts-th failed attempt, and the last thing the caller is
\* sent is then the end of the reply, the gate-open signal or the fallback
\* reply.
C36_DispatchTerminates ==
    /\ [](\A r \in Reqs : EndedWell(r))
    /\ \A r \in Reqs : Dispatching(r) ~> (rq[r].pc = "done")

\* C36's case: max_attempts attempts failed and the dispatch ended with the
\* fallback reply
C36_Witness ==
    \E r \in Reqs :
        /\ rq[r].pc = "done"
        /\ rq[r].upstream # <<>>
        /\ rq[r].attempts = max_attempts
        /\ rq[r].reports = max_attempts
        /\ ~rq[r].success
        /\ rq[r].out[Len(rq[r].out)] = FALLBACK_MSG

\* ---------------------------------------------------------------------------
\* C37 (checkpointing): a save_chat_checkpoint call of a turn of a user
\* with a stored session stores the conversation in the messages of that
\* user's current session when the number of messages is a multiple of
\* CheckpointEvery, and leaves the document as it was at any other number.
C37_Checkpointing ==
    [][\A r \in Reqs :
          (/\ rq[r].pc = "checkpoint" /\ rq'[r].pc = "gate"
           /\ db[rq[r].user_uid].exists
           /\ db[rq[r].user_uid].sessions # <<>>)
          => IF Len(rq[r].messages) % CheckpointEvery = 0
             THEN \/ db' = db
                  \/ CurrentSession(db'[rq[r].user_uid]).messages
                        = rq[r].messages
             ELSE db' = db]_vars

\* ---------------------------------------------------------------------------
\* C38 (the failure map stays inside the pool): whatever the dispatches
\* have done, every key of the failure map is a registered key, with one
\* entry, and the key the latest get_next_key call returned is None or a
\* registered key that is not in the failure map as the call returns.
C38_FailureMapInPool ==
    /\ DictKeys(failed_keys) \subseteq Elems(keys)
    /\ Cardinality(DictKeys(failed_keys)) = Len(failed_keys)
    /\ lastCall.op = "get_next_key"
       => \/ lastCall.ret = None
          \/ /\ lastCall.ret \in Elems(keys)
             /\ ~InDict(failed_keys, lastCall.ret)

\* C38's case: while two dispatches are in their loops and a key is in the
\* failure map, get_next_key has returned another key that had been
\* reported before and has left the failure map
C38_Witness ==
    /\ \A r \in Reqs : InLoop(r)
    /\ failed_keys # <<>>
    /\ lastCall.op = "get_next_key"
    /\ lastCall.ret # None
    /\ lastReport[lastCall.ret] # NoTime
    /\ ~InDict(failed_keys, lastCall.ret)

\* ---------------------------------------------------------------------------
\* C39 (access_granted is monotonic): a user stored with access_granted set
\* is stored with access_granted set ever after, whatever the interleaving
\* of the get_or_create_profile, start_session, save_chat_checkpoint and
\* mark_access_granted calls of concurrent requests of that user.
C39_AccessGrantedMonotonic ==
    [][\A u \in Users :
          (db[u].exists /\ db[u].access_granted)
          => (db'[u].exists /\ db'[u].access_granted)]_vars

=============================================================================
